---------------------------- MODULE Spec2Model ----------------------------
(***************************************************************************)
(* coppwr: the session bridge (backend/mod.rs), the graph mirror           *)
(* (ui/global.rs), the metadata mirror (ui/metadata_editor.rs) and the     *)
(* helpers they use (ui/util/uis.rs, ui/object_creator.rs).                *)
(*                                                                         *)
(* The module holds several state machines over one set of variables:     *)
(*   SpecBridge / FairSpecBridge  the two threads and their two channels   *)
(*   SpecGraph                    the Global tree and its traversal        *)
(*   SpecPorts, SpecMove          the Global tree on a node with its ports *)
(*                                and on a node between two devices        *)
(*   SpecDerive                   Global::new / set_props on drawn inputs  *)
(*   SpecMeta                     the MetadataEditor store                 *)
(*   SpecClient                   the permissions panel of a Client        *)
(*   SpecCreator                  the ObjectCreator tool                   *)
(* A specification leaves the variables of the other machines at their     *)
(* initial values.                                                         *)
(***************************************************************************)
EXTENDS Integers, Sequences, FiniteSets, TLC

VARIABLES
    \* ---- session bridge (backend/mod.rs) ----
    thread,        \* position of the bridge thread spawned by Handle::run
    uiPc,          \* position of the UI thread with respect to the Handle
    handleThread,  \* Handle.thread : Option<JoinHandle<()>>
    requests,      \* Request channel (pw::channel), UI -> bridge
    events,        \* Event channel (std::sync::mpsc), bridge -> UI
    emitted,       \* history: every Event the bridge has sent, in order
    received,      \* history: every Event the UI has taken, in order
    sent,          \* history: number of requests the UI has tried to send
    stopSends,     \* history: number of send(Request::Stop) calls
    joins,         \* history: number of JoinHandle::join calls
    log,           \* lines written with eprintln!
    \* ---- graph mirror (ui/global.rs) ----
    heap,          \* Rc<RefCell<Global>> allocations, in allocation order: Some(Global), None once freed
    store,         \* the mirror's id -> Rc map: id -> Some(handle) or None
    shown,         \* what the last Global::show drew, in drawing order
    groups,        \* the port groups the last Global::show drew, in drawing order
    uiPanic,       \* a RefCell borrow failed and the UI thread unwound
    \* ---- Global::new / set_props on drawn inputs ----
    dType,         \* input: object type
    dInit,         \* input: Option of the props handed to Global::new
    dNext,         \* input: the props handed to set_props
    probe,         \* Option of the Global under test
    dPc,           \* "idle", "start", "new", "set"
    \* ---- metadata mirror (ui/metadata_editor.rs) ----
    metadatas,     \* MetadataEditor.metadatas : BTreeMap<u32, Metadata>
    created,       \* history: ids created and not removed by remove_metadata since
    lastOp,        \* history: the last MetadataEditor operation and its arguments
    \* ---- permissions panel of a Client (ui/global.rs, ObjectData) ----
    permissions,       \* ObjectData::Client.permissions : Option<Vec<Permissions>>
    user_permissions,  \* ObjectData::Client.user_permissions : Vec<Permissions>
    \* ---- ObjectCreator (ui/object_creator.rs) ----
    factories,         \* ObjectCreator.factories : HashMap<u32, Factory>
    selected_factory,  \* ObjectCreator.selected_factory : Option<u32>
    creator_props,     \* ObjectCreator.props : EditableKVList
    lastFrame,         \* history: whether the last ObjectCreator::show began with a stale selection
    pickedFactory,     \* history: the factory the selection named when it was picked, and whether it was removed since
    \* ---- the labels of draw_permissions (ui/global.rs 32-70) ----
    pw_v0_3_77,        \* the build has the feature pw_v0_3_77
    remote_version,    \* REMOTE_VERSION : OnceLock<(u32, u32, u32)>
    PERMISSIONS,       \* draw_permissions::PERMISSIONS : OnceLock of the labels
    seenVersion        \* history: what remote_version() returned when PERMISSIONS was set

bridgeVars == <<thread, uiPc, handleThread, requests, events, emitted,
                received, sent, stopSends, joins, log>>
graphVars == <<heap, store, shown, groups, uiPanic>>
deriveVars == <<dType, dInit, dNext, probe, dPc>>
metaVars == <<metadatas, created, lastOp>>
clientVars == <<permissions, user_permissions>>
creatorVars == <<factories, selected_factory, creator_props, lastFrame, pickedFactory>>
labelVars == <<pw_v0_3_77, remote_version, PERMISSIONS, seenVersion>>

vars == <<bridgeVars, graphVars, deriveVars, metaVars, clientVars, creatorVars,
         labelVars>>

\* Frames: a step of one machine leaves the others alone.
BridgeOnly == UNCHANGED <<labelVars, graphVars, deriveVars, metaVars, clientVars, creatorVars>>
GraphOnly == UNCHANGED <<labelVars, bridgeVars, deriveVars, metaVars, clientVars, creatorVars>>
DeriveOnly == UNCHANGED <<labelVars, bridgeVars, graphVars, metaVars, clientVars, creatorVars>>
MetaOnly == UNCHANGED <<labelVars, bridgeVars, graphVars, deriveVars, clientVars, creatorVars>>

\* A widget of the UI leaves the bridge alone but for the Request channel it
\* sends on.
WidgetBridgeFrame ==
    UNCHANGED <<thread, uiPc, handleThread, events, emitted, received, sent,
                stopSends, joins, log>>
ClientOnly ==
    WidgetBridgeFrame /\ UNCHANGED <<labelVars, graphVars, deriveVars, metaVars, creatorVars>>
CreatorOnly ==
    WidgetBridgeFrame /\ UNCHANGED <<labelVars, graphVars, deriveVars, metaVars, clientVars>>

\* Option<T>: None is the empty sequence, Some(x) the sequence holding x.
None == <<>>
Some(x) == <<x>>

------------------------------------------------------------------------------
\* Bounds of the model.
MaxEvents == 3      \* Events the bridge emits in one run
MaxRequests == 2    \* requests other than Stop the UI sends in one run
MaxProps == 2       \* entries of a props map handed to Global::new / set_props
MaxUserProps == 1   \* staged user records of one metadata
MaxAllocs == 3      \* Globals allocated in one run
MaxSubobjects == 2  \* entries of one Global's subobjects list
MaxStaged == 1      \* staged entries of a Client's user_permissions
MaxCreatorProps == 2 \* entries of the ObjectCreator's props list
MaxAdditions == 2    \* staged additions to a Client's props

------------------------------------------------------------------------------
(***************************************************************************)
(* Protocol (backend/mod.rs 29-80).  Only the variant matters to the       *)
(* bridge machine; payloads are carried by the machines that build them.   *)
(***************************************************************************)
StopRequest == [kind |-> "Stop"]

OtherRequests == {[kind |-> "DestroyObject"], [kind |-> "GetContextProperties"]}

BridgeEvents == {[kind |-> "GlobalAdded"], [kind |-> "GlobalRemoved"]}

------------------------------------------------------------------------------
(***************************************************************************)
(* The two channels created by Handle::run.                                *)
(***************************************************************************)

\* A synchronous channel of capacity 1 in place of mpsc::channel().
EventSendReadyBounded(ch) == Len(ch) < 1

\* std::sync::mpsc::channel::<Event>() is the asynchronous flavour: its
\* buffer is unbounded and Sender::send never blocks.
EventSendReady(ch) == TRUE

\* A channel that hands the newest message over first.
EventSendLifo(ch, e) == <<e>> \o ch

\* Sender::send on the Event channel: the message joins the back of the queue.
EventSend(ch, e) == Append(ch, e)

\* Receiver::try_recv on the Event channel: the front of the queue.
EventRecvHead(ch) == Head(ch)
EventRecvRest(ch) == Tail(ch)

\* A join that returns only for a loop that was running.
FinishedAfterRunning(t) == t \in {"stopped", "panicked"}

\* The bridge thread has returned or unwound; join no longer blocks.
Finished(t) == t \in {"stopped", "failed", "panicked"}

\* pw::channel::Sender::send.  While the receiving loop lives the request is
\* queued.  Once the bridge has torn down the send either reports an error
\* (the request is handed back and dropped) or queues a request nobody reads.
RequestSendOutcomes(t) == IF Finished(t) THEN {"err", "ok"} ELSE {"ok"}

RequestSend(ch, r, outcome) == IF outcome = "ok" THEN Append(ch, r) ELSE ch

\* sx.send(r).ok() for each request of rs in turn; outs[i] is the outcome of
\* the i-th send.
RECURSIVE SendEach(_, _, _, _)
SendEach(ch, rs, outs, i) ==
    IF i > Len(rs) THEN ch
    ELSE SendEach(RequestSend(ch, rs[i], outs[i]), rs, outs, i + 1)

\* The widget sends the requests rs on Handle.sx.  The frames drawn are those
\* on a drained channel.
WidgetSend(rs) ==
    /\ requests = <<>>
    /\ \E outs \in [1..Len(rs) -> RequestSendOutcomes(thread)] :
           requests' = SendEach(requests, rs, outs, 1)

------------------------------------------------------------------------------
(***************************************************************************)
(* Strings.  Keys and values are TLA+ strings; the operations the code     *)
(* applies to them are computed character by character.                    *)
(***************************************************************************)
\* The characters that occur in the model's keys and numeric values, in
\* byte order (the order str's Ord compares by).
Ascii == "+-.0123456789abcdefghijklmnopqrstuvwxyz"

CharAt(s, i) == SubSeq(s, i, i)

Ord(c) == CHOOSE i \in 1..Len(Ascii) : CharAt(Ascii, i) = c

Digits == {CharAt("0123456789", i) : i \in 1..10}

DigitValue(c) == Ord(c) - Ord("0")

\* <str as Ord>::lt: lexicographic by byte, a proper prefix sorts first.
RECURSIVE StrLessFrom(_, _, _)
StrLessFrom(a, b, i) ==
    IF i > Len(a) THEN i <= Len(b)
    ELSE IF i > Len(b) THEN FALSE
    ELSE IF CharAt(a, i) = CharAt(b, i) THEN StrLessFrom(a, b, i + 1)
    ELSE Ord(CharAt(a, i)) < Ord(CharAt(b, i))

StrLess(a, b) == StrLessFrom(a, b, 1)

\* str::ends_with
EndsWith(s, suffix) ==
    /\ Len(s) >= Len(suffix)
    /\ SubSeq(s, Len(s) - Len(suffix) + 1, Len(s)) = suffix

\* u32::MAX = 4294967295 = 10 * U32MaxDiv10 + U32MaxMod10
U32MaxDiv10 == 429496729
U32MaxMod10 == 5

\* The digit loop of <u32 as FromStr>::from_str: checked_mul(10) and
\* checked_add(digit); any other character or an overflow is an error.
RECURSIVE ParseDigits(_, _, _)
ParseDigits(s, i, acc) ==
    IF i > Len(s) THEN Some(acc)
    ELSE IF CharAt(s, i) \notin Digits THEN None
    ELSE LET d == DigitValue(CharAt(s, i)) IN
         IF acc > U32MaxDiv10 \/ (acc = U32MaxDiv10 /\ d > U32MaxMod10)
         THEN None
         ELSE ParseDigits(s, i + 1, acc * 10 + d)

\* A parse that reads every unparseable value as 0.
ParseU32Lenient(s) ==
    LET r == IF Len(s) = 0 THEN None ELSE ParseDigits(s, 1, 0) IN
    IF r = None THEN Some(0) ELSE r

\* str::parse::<u32>().ok(): an optional leading "+", then at least one digit.
ParseU32(s) ==
    LET start == IF Len(s) > 0 /\ CharAt(s, 1) = "+" THEN 2 ELSE 1 IN
    IF start > Len(s) THEN None ELSE ParseDigits(s, start, 0)

\* BTreeMap::get
Get(map, k) == IF k \in DOMAIN map THEN Some(map[k]) ELSE None

\* BTreeMap::iter visits the keys in ascending order.
RECURSIVE SortKeys(_)
SortKeys(S) ==
    IF S = {} THEN <<>>
    ELSE LET m == CHOOSE k \in S : \A o \in S \ {k} : StrLess(k, o) IN
         <<m>> \o SortKeys(S \ {m})

BTreeKeys(map) == SortKeys(DOMAIN map)

\* BTreeMap::new / unwrap_or_default
EmptyMap == [k \in {} |-> ""]

\* insert and remove of BTreeMap and HashMap
MapPut(m, k, v) == (k :> v) @@ m
MapRemove(m, k) == [x \in DOMAIN m \ {k} |-> m[x]]

------------------------------------------------------------------------------
(***************************************************************************)
(* Global (ui/global.rs).                                                  *)
(***************************************************************************)
ObjectTypes == {"Client", "Device", "Node", "Port", "Link", "Factory",
                "Module", "Metadata", "Core", "Profiler", "Other"}

\* impl From<ObjectType> for ObjectData
ObjectDataFrom(t) ==
    IF t = "Client"
    THEN [tag |-> "Client", permissions |-> None, user_permissions |-> <<>>,
          user_properties |-> <<>>]
    ELSE [tag |-> "Other", type |-> t]

\* ObjectData::pipewire_type, Global::object_type
PipewireType(od) == IF od.tag = "Client" THEN "Client" ELSE od.type

ObjectType(g) == PipewireType(g.object_data)

\* A lookup that goes on to client.id when device.id holds no u32.
ParentSourceFirstParsable(g) ==
    CASE ObjectType(g) = "Node" ->
             IF Get(g.props, "device.id") # None
                /\ ParseU32(Get(g.props, "device.id")[1]) # None
             THEN Get(g.props, "device.id")
             ELSE Get(g.props, "client.id")
      [] ObjectType(g) = "Port" -> Get(g.props, "node.id")
      [] OTHER -> None

\* Global::update, 223-230: the property the parent id is read from.
ParentSource(g) ==
    CASE ObjectType(g) = "Node" ->
             IF Get(g.props, "device.id") # None
             THEN Get(g.props, "device.id")
             ELSE Get(g.props, "client.id")
      [] ObjectType(g) = "Port" -> Get(g.props, "node.id")
      [] OTHER -> None

\* Global::update, 231: .and_then(|id| id.parse().ok())
ParentOf(g) ==
    LET src == ParentSource(g) IN
    IF src = None THEN None ELSE ParseU32(src[1])

\* Candidate keys that put the name before the nick.
NameLookupsNameFirst(t) ==
    CASE t = "Device" -> <<"device.name", "device.description", "device.nick">>
      [] t = "Node" -> <<"node.name", "node.description", "node.nick">>
      [] t = "Port" -> <<"port.name">>
      [] t = "Core" -> <<"core.name">>
      [] OTHER -> <<>>

\* Global::update, 234-250: the type-specific candidate keys, in order.
NameLookups(t) ==
    CASE t = "Device" -> <<"device.nick", "device.description", "device.name">>
      [] t = "Node" -> <<"node.nick", "node.description", "node.name">>
      [] t = "Port" -> <<"port.name">>
      [] t = "Core" -> <<"core.name">>
      [] OTHER -> <<>>

\* .find_map(|lookup| self.props.get(lookup))
RECURSIVE FindMap(_, _, _)
FindMap(lookups, i, props) ==
    IF i > Len(lookups) THEN None
    ELSE IF Get(props, lookups[i]) # None THEN Get(props, lookups[i])
    ELSE FindMap(lookups, i + 1, props)

\* A scan that takes library.name like any other key.
RECURSIVE FallbackScanNoLibrarySkip(_, _, _, _)
FallbackScanNoLibrarySkip(keys, i, props, t) ==
    IF i > Len(keys) THEN None
    ELSE IF ~EndsWith(keys[i], ".name")
         THEN FallbackScanNoLibrarySkip(keys, i + 1, props, t)
    ELSE IF t # "Factory" /\ keys[i] = "factory.name"
         THEN FallbackScanNoLibrarySkip(keys, i + 1, props, t)
    ELSE Some(props[keys[i]])

\* Global::update, 253-265: the scan of props in key order.
RECURSIVE FallbackScan(_, _, _, _)
FallbackScan(keys, i, props, t) ==
    IF i > Len(keys) THEN None
    ELSE IF ~(EndsWith(keys[i], ".name") /\ keys[i] # "library.name")
         THEN FallbackScan(keys, i + 1, props, t)
    ELSE IF t # "Factory" /\ keys[i] = "factory.name"
         THEN FallbackScan(keys, i + 1, props, t)
    ELSE Some(props[keys[i]])

\* Global::update, 233-267
NameOf(g) ==
    LET name == FindMap(NameLookups(ObjectType(g)), 1, g.props) IN
    IF name = None
    THEN FallbackScan(BTreeKeys(g.props), 1, g.props, ObjectType(g))
    ELSE name

\* Global::update
Update(g) == [g EXCEPT !.parent = ParentOf(g), !.name = NameOf(g)]

\* Global::new; props is an Option.
GlobalNew(id, t, props) ==
    LET this == [id |-> id, name |-> None, parent |-> None,
                 subobjects |-> <<>>, info |-> None,
                 props |-> IF props = None THEN EmptyMap ELSE props[1],
                 object_data |-> ObjectDataFrom(t)] IN
    IF DOMAIN this.props # {} THEN Update(this) ELSE this

\* A set_props that keeps the parent it had when the new props name none.
SetPropsKeepParent(g, props) ==
    LET u == Update([g EXCEPT !.props = props]) IN
    IF u.parent = None THEN [u EXCEPT !.parent = g.parent] ELSE u

\* A property update that puts a new Global in the place of the old one.
SetPropsReplace(g, props) == GlobalNew(g.id, ObjectType(g), Some(props))

\* Global::set_props
SetProps(g, props) == Update([g EXCEPT !.props = props])

\* Global::set_info
SetInfo(g, info) == [g EXCEPT !.info = info]

\* Global::parent_id, Global::name
ParentId(g) == g.parent
Name(g) == g.name

------------------------------------------------------------------------------
(***************************************************************************)
(* Handle::run: both channels are created empty and the thread is spawned. *)
(***************************************************************************)
BridgeInit ==
    /\ thread = "setup"
    /\ uiPc = "live"
    /\ handleThread = Some("JoinHandle")
    /\ requests = <<>>
    /\ events = <<>>
    /\ emitted = <<>>
    /\ received = <<>>
    /\ sent = 0
    /\ stopSends = 0
    /\ joins = 0
    /\ log = <<>>

(***************************************************************************)
(* pipewire_thread (backend/pipewire.rs): connection set-up, then the      *)
(* loop that services daemon callbacks and the Request channel.            *)
(***************************************************************************)
BridgeSetupOk ==
    /\ thread = "setup"
    /\ thread' = "running"
    /\ BridgeOnly
    /\ UNCHANGED <<uiPc, handleThread, requests, events, emitted, received,
                   sent, stopSends, joins, log>>

\* An error creating the connection is terminal: the thread function returns.
BridgeSetupFail ==
    /\ thread = "setup"
    /\ thread' = "failed"
    /\ BridgeOnly
    /\ UNCHANGED <<uiPc, handleThread, requests, events, emitted, received,
                   sent, stopSends, joins, log>>

\* A daemon callback hands one Event to the Event channel.
BridgeEmit(e) ==
    /\ thread = "running"
    /\ Len(emitted) < MaxEvents
    /\ EventSendReady(events)
    /\ events' = EventSend(events, e)
    /\ emitted' = Append(emitted, e)
    /\ BridgeOnly
    /\ UNCHANGED <<thread, uiPc, handleThread, requests, received, sent,
                   stopSends, joins, log>>

\* The loop takes the next pending Request; Stop ends the loop.
BridgeRecv ==
    /\ thread = "running"
    /\ requests # <<>>
    /\ requests' = Tail(requests)
    /\ thread' = IF Head(requests) = StopRequest THEN "stopped" ELSE "running"
    /\ BridgeOnly
    /\ UNCHANGED <<uiPc, handleThread, events, emitted, received, sent,
                   stopSends, joins, log>>

\* A panic unwinds the thread; the JoinHandle will report Err.
BridgePanic ==
    /\ thread \in {"setup", "running"}
    /\ thread' = "panicked"
    /\ BridgeOnly
    /\ UNCHANGED <<uiPc, handleThread, requests, events, emitted, received,
                   sent, stopSends, joins, log>>

(***************************************************************************)
(* The UI thread while it owns the Handle.                                 *)
(***************************************************************************)
\* One Event is taken from Handle.rx.
UiRecv ==
    /\ uiPc = "live"
    /\ events # <<>>
    /\ received' = Append(received, EventRecvHead(events))
    /\ events' = EventRecvRest(events)
    /\ BridgeOnly
    /\ UNCHANGED <<thread, uiPc, handleThread, requests, emitted, sent,
                   stopSends, joins, log>>

\* A request-issuing widget: sx.send(..).ok()
UiSend(r) ==
    /\ uiPc = "live"
    /\ sent < MaxRequests
    /\ \E outcome \in RequestSendOutcomes(thread) :
           requests' = RequestSend(requests, r, outcome)
    /\ sent' = sent + 1
    /\ BridgeOnly
    /\ UNCHANGED <<thread, uiPc, handleThread, events, emitted, received,
                   stopSends, joins, log>>

\* Drop for Handle that joins without asking the loop to stop.
DropSendStopSkipped ==
    /\ uiPc = "live"
    /\ uiPc' = "joining"
    /\ BridgeOnly
    /\ UNCHANGED <<thread, handleThread, requests, events, emitted, received,
                   sent, stopSends, joins, log>>

\* Drop for Handle, first statement: send Stop, log when the send fails.
DropSendStop ==
    /\ uiPc = "live"
    /\ \E outcome \in RequestSendOutcomes(thread) :
           /\ requests' = RequestSend(requests, StopRequest, outcome)
           /\ log' = IF outcome = "err"
                     THEN Append(log, "Error sending stop request to PipeWire")
                     ELSE log
    /\ stopSends' = stopSends + 1
    /\ uiPc' = "joining"
    /\ BridgeOnly
    /\ UNCHANGED <<thread, handleThread, events, emitted, received, sent, joins>>

\* Drop for Handle with join().unwrap(): the panic of the bridge thread
\* unwinds the UI thread.
DropJoinUnwrap ==
    /\ uiPc = "joining"
    /\ handleThread # None
    /\ Finished(thread)
    /\ handleThread' = None
    /\ joins' = joins + 1
    /\ uiPc' = IF thread = "panicked" THEN "panicked" ELSE "dropped"
    /\ BridgeOnly
    /\ UNCHANGED <<thread, requests, events, emitted, received, sent, stopSends, log>>

\* Drop for Handle, second statement: thread.take().map(join) returns once
\* the thread has finished; Err(e) is logged.
DropJoin ==
    /\ uiPc = "joining"
    /\ handleThread # None
    /\ Finished(thread)
    /\ handleThread' = None
    /\ joins' = joins + 1
    /\ log' = IF thread = "panicked"
              THEN Append(log, "The PipeWire thread has paniced")
              ELSE log
    /\ uiPc' = "dropped"
    /\ BridgeOnly
    /\ UNCHANGED <<thread, requests, events, emitted, received, sent, stopSends>>

------------------------------------------------------------------------------
(***************************************************************************)
(* Global::new and Global::set_props applied to drawn inputs.             *)
(***************************************************************************)
DeriveKeys == {"application.name", "client.id", "core.name",
               "device.description", "device.id", "device.name",
               "device.nick", "factory.name", "library.name", "media.name",
               "node.description", "node.id", "node.name", "node.nick",
               "node.nickname", "port.name"}

IdKeys == {"client.id", "device.id", "node.id"}

IdValues == {"5", "x", "", "+2", "4294967296"}

ValuesOf(k) == IF k \in IdKeys THEN IdValues ELSE {"the " \o k}

RECURSIVE MapsOver(_)
MapsOver(D) ==
    IF D = {} THEN {EmptyMap}
    ELSE LET k == CHOOSE x \in D : TRUE IN
         {(k :> v) @@ m : v \in ValuesOf(k), m \in MapsOver(D \ {k})}

PropMaps ==
    UNION {MapsOver(D) : D \in {E \in SUBSET DeriveKeys : Cardinality(E) <= MaxProps}}

SeedMaps == {EmptyMap, ("node.id" :> "5") @@ ("port.name" :> "the port.name")}

SeedInputs == {None, Some(("device.id" :> "5") @@ ("node.nick" :> "the node.nick"))}

DeriveIdle ==
    /\ dType = "Other"
    /\ dInit = None
    /\ dNext = EmptyMap
    /\ probe = None
    /\ dPc = "idle"

DeriveInit ==
    /\ dType \in ObjectTypes
    /\ \/ dInit \in SeedInputs /\ dNext \in PropMaps
       \/ dInit \in {Some(m) : m \in PropMaps} /\ dNext \in SeedMaps
    /\ probe = None
    /\ dPc = "start"

\* Global::new(id, object_type, props)
DeriveNew ==
    /\ dPc = "start"
    /\ probe' = Some(GlobalNew(1, dType, dInit))
    /\ dPc' = "new"
    /\ UNCHANGED <<dType, dInit, dNext>>
    /\ DeriveOnly

\* global.set_props(props)
DeriveSetProps ==
    /\ dPc = "new"
    /\ probe' = Some(SetProps(probe[1], dNext))
    /\ dPc' = "set"
    /\ UNCHANGED <<dType, dInit, dNext>>
    /\ DeriveOnly

\* a later set_props that brings the first props back
DeriveSetPropsBack ==
    /\ dPc = "set"
    /\ probe' = Some(SetProps(probe[1], IF dInit = None THEN EmptyMap ELSE dInit[1]))
    /\ dPc' = "back"
    /\ UNCHANGED <<dType, dInit, dNext>>
    /\ DeriveOnly

NextDerive == DeriveNew \/ DeriveSetProps \/ DeriveSetPropsBack

------------------------------------------------------------------------------
(***************************************************************************)
(* The graph mirror: the store that owns the Globals (its code is not part *)
(* of the sources at hand) and Global::show / add_subobject.               *)
(*                                                                         *)
(* heap[h] is an Rc<RefCell<Global>> allocation.  The store holds the only *)
(* owning reference, so the allocation is freed when the store lets go of  *)
(* it.  A Weak reference is the handle h; Weak::upgrade succeeds while     *)
(* heap[h] is not None.                                                    *)
(***************************************************************************)
Ids == {1, 2}

\* the ids the store can hold a Global under
StoreIds == {1, 2, 3}

GraphTypes == {"Device", "Node", "Port", "Link"}

\* u32::to_string for one decimal digit
IdText(i) == CharAt("0123456789", i + 1)

\* props maps the daemon reports for a Global of type t: the keys
\* Global::update reads the parent from, naming a Global of the graph.
GraphPropsOf(t) ==
    {EmptyMap} \cup
    CASE t = "Node" -> {("device.id" :> IdText(i)) : i \in Ids}
      [] t = "Port" -> {("node.id" :> IdText(i)) : i \in Ids}
      [] OTHER -> {}

GraphInit ==
    /\ heap = <<>>
    /\ store = [i \in StoreIds |-> None]
    /\ shown = <<>>
    /\ groups = <<>>
    /\ uiPanic = FALSE

\* Weak::upgrade(..).is_some()
Upgradable(hp, h) == hp[h] # None

\* Global::add_subobject
AddSubobject(g, weak) == [g EXCEPT !.subobjects = Append(@, weak)]

\* The store resolves a derived parent id to the Global it holds under it.
ParentHandle(st, g) ==
    IF ParentId(g) # None /\ ParentId(g)[1] \in DOMAIN st
    THEN st[ParentId(g)[1]]
    ELSE None

\* parent.borrow_mut().add_subobject(Rc::downgrade(child))
Attach(hp, parent, child) ==
    IF parent = None THEN hp
    ELSE [hp EXCEPT ![parent[1]] = Some(AddSubobject(@[1], child))]

\* Room in the parent's list (bound of the model).
AttachRoom(hp, parent) ==
    IF parent = None THEN TRUE
    ELSE Len(hp[parent[1]][1].subobjects) < MaxSubobjects

\* Event::GlobalAdded(id, type, props): Global::new, then the reference is
\* appended to the parent's list.
StoreAdd(id, t, props) ==
    /\ ~uiPanic
    /\ store[id] = None
    /\ Len(heap) < MaxAllocs
    /\ LET g == GlobalNew(id, t, props)
           h == Len(heap) + 1
           parent == ParentHandle(store, g) IN
       /\ AttachRoom(heap, parent)
       /\ heap' = Attach(Append(heap, Some(g)), parent, h)
       /\ store' = [store EXCEPT ![id] = Some(h)]
    /\ shown' = <<>>
    /\ groups' = <<>>
    /\ UNCHANGED uiPanic
    /\ GraphOnly

\* Event::GlobalProperties(id, props): set_props, then, the derived parent
\* having changed, the reference is appended to the new parent's list.
StoreSetProps(id, t, props) ==
    /\ ~uiPanic
    /\ store[id] # None
    /\ ObjectType(heap[store[id][1]][1]) = t
    /\ LET h == store[id][1]
           g == SetProps(heap[h][1], props)
           parent == IF ParentId(g) # ParentId(heap[h][1])
                     THEN ParentHandle(store, g) ELSE None
           hp == [heap EXCEPT ![h] = Some(g)] IN
       /\ AttachRoom(hp, parent)
       /\ heap' = Attach(hp, parent, h)
    /\ shown' = <<>>
    /\ groups' = <<>>
    /\ UNCHANGED <<store, uiPanic>>
    /\ GraphOnly

\* Event::GlobalRemoved(id): the owning reference is dropped.
StoreRemove(id) ==
    /\ ~uiPanic
    /\ store[id] # None
    /\ heap' = [heap EXCEPT ![store[id][1]] = None]
    /\ store' = [store EXCEPT ![id] = None]
    /\ shown' = <<>>
    /\ groups' = <<>>
    /\ UNCHANGED uiPanic
    /\ GraphOnly

\* Global::show, 371-378: the types that have a subobjects section.
HasSubobjectsHeader(t) == t \in {"Device", "Client", "Node", "Port"}

\* The groups with the Inputs drawn first.
PortsByDirectionInputsFirst(hp, subs) ==
    LET Dir(h) == Get(hp[h][1].props, "port.direction")
        IsOut(h) == Dir(h) = Some("out")
        IsIn(h) == Dir(h) = Some("in")
        IsUnk(h) == ~IsOut(h) /\ ~IsIn(h) IN
    << [label |-> "Inputs", ports |-> SelectSeq(subs, IsIn)],
       [label |-> "Outputs", ports |-> SelectSeq(subs, IsOut)],
       [label |-> "Unknown direction", ports |-> SelectSeq(subs, IsUnk)] >>

\* Global::show, 398-432: a Node's ports by direction, in the order the
\* groups are drawn.
PortsByDirection(hp, subs) ==
    LET Dir(h) == Get(hp[h][1].props, "port.direction")
        IsOut(h) == Dir(h) = Some("out")
        IsIn(h) == Dir(h) = Some("in")
        IsUnk(h) == ~IsOut(h) /\ ~IsIn(h) IN
    << [label |-> "Outputs", ports |-> SelectSeq(subs, IsOut)],
       [label |-> "Inputs", ports |-> SelectSeq(subs, IsIn)],
       [label |-> "Unknown direction", ports |-> SelectSeq(subs, IsUnk)] >>

\* Global::show.  st = [heap, shown, groups, panic]; h is the Global being
\* shown and borrowed the Globals whose RefCell is mutably borrowed, h among
\* them.  A second borrow of a borrowed RefCell panics.
RECURSIVE ShowGlobal(_, _, _, _, _)
RECURSIVE ShowEach(_, _, _, _, _)
RECURSIVE ShowGroups(_, _, _, _, _, _)

ShowGlobal(st, h, draw, open, borrowed) ==
    LET g == st.heap[h][1]
        t == ObjectType(g)
        \* 305-369: name, id, type, Destroy, Info, Properties
        st1 == [st EXCEPT !.shown = Append(@, h)] IN
    IF ~HasSubobjectsHeader(t) THEN st1                  \* 375-377: return
    ELSE IF g.subobjects = <<>> THEN st1                   \* 380
    ELSE
        LET Live(s) == Upgradable(st.heap, s)
            \* 381: self.subobjects.retain(|sub| sub.upgrade().is_some())
            live == SelectSeq(g.subobjects, Live)
            st2 == [st1 EXCEPT !.heap[h] = Some([g EXCEPT !.subobjects = live])] IN
        IF h \notin open THEN st2                          \* header collapsed
        ELSE IF draw
        THEN IF t = "Node"
             THEN \* 402-413: port.borrow() on every port, then the groups
                  IF \E i \in 1..Len(live) : live[i] \in borrowed
                  THEN [st2 EXCEPT !.panic = TRUE]
                  ELSE ShowGroups(st2, h, PortsByDirection(st2.heap, live), 1,
                                  open, borrowed)
             ELSE ShowEach(st2, live, 1, open, borrowed)
        ELSE \* 446-448: ui.label(sub.borrow().id.to_string())
             IF \E i \in 1..Len(live) : live[i] \in borrowed
             THEN [st2 EXCEPT !.panic = TRUE]
             ELSE [st2 EXCEPT !.shown = @ \o live]

\* for sub in subobjects { sub.borrow_mut().show(ui, true, sx) }
ShowEach(st, subs, i, open, borrowed) ==
    IF st.panic \/ i > Len(subs) THEN st
    ELSE IF subs[i] \in borrowed THEN [st EXCEPT !.panic = TRUE]
    ELSE ShowEach(ShowGlobal(st, subs[i], TRUE, open, borrowed \cup {subs[i]}),
                  subs, i + 1, open, borrowed)

\* 415-432: for (label, ports) in [..] { if ports.is_empty() { continue; }
\* ui.label(label); subobjects_display(.., ports, ..) }
ShowGroups(st, h, gs, i, open, borrowed) ==
    IF st.panic \/ i > Len(gs) THEN st
    ELSE IF gs[i].ports = <<>> THEN ShowGroups(st, h, gs, i + 1, open, borrowed)
    ELSE LET drawn == [node |-> h, label |-> gs[i].label, ports |-> gs[i].ports]
             st1 == [st EXCEPT !.groups = Append(@, drawn)] IN
         ShowGroups(ShowEach(st1, gs[i].ports, 1, open, borrowed),
                    h, gs, i + 1, open, borrowed)

\* What one frame that shows the Global held under id does to the graph:
\* global.borrow_mut().show(..).  open is the set of Globals whose subobjects
\* header is expanded.
ShowFrame(id, draw, open) ==
    /\ ~uiPanic
    /\ store[id] # None
    /\ LET h == store[id][1]
           r == ShowGlobal([heap |-> heap, shown |-> <<>>, groups |-> <<>>,
                            panic |-> FALSE],
                           h, draw, open, {h}) IN
       /\ heap' = IF r.panic THEN heap ELSE r.heap
       /\ shown' = IF r.panic THEN <<>> ELSE r.shown
       /\ groups' = IF r.panic THEN <<>> ELSE r.groups
       /\ uiPanic' = r.panic
    /\ UNCHANGED store

\* A frame in which no widget of the Global is clicked.
Show(id, draw, open) ==
    /\ ShowFrame(id, draw, open)
    /\ GraphOnly

\* Request::DestroyObject(id)
DestroyObjectRequest(id) == [kind |-> "DestroyObject", id |-> id]

\* 317-321: a frame in which "Destroy" is clicked on the Global held under id
DestroyClick(id, draw, open) ==
    /\ ShowFrame(id, draw, open)
    /\ WidgetSend(<<DestroyObjectRequest(heap[store[id][1]][1].id)>>)
    /\ WidgetBridgeFrame
    /\ UNCHANGED <<labelVars, deriveVars, metaVars, clientVars, creatorVars>>

NextGraph ==
    \/ \E id \in Ids, t \in GraphTypes :
           \E props \in {None} \cup {Some(m) : m \in GraphPropsOf(t)} :
               StoreAdd(id, t, props)
    \/ \E id \in Ids, t \in GraphTypes :
           \E props \in GraphPropsOf(t) : StoreSetProps(id, t, props)
    \/ \E id \in Ids : StoreRemove(id)
    \/ \E id \in Ids, draw \in BOOLEAN, open \in SUBSET (1..Len(heap)) :
           Show(id, draw, open)

------------------------------------------------------------------------------
(***************************************************************************)
(* The graph mirror on two small graphs: a Node (id 1) with its Ports      *)
(* (ids 2 and 3), and a Node (id 3) that the daemon moves between two      *)
(* Devices (ids 1 and 2).                                                  *)
(***************************************************************************)
PortIds == {2, 3}

\* props of a Port of Node 1: with and without port.direction
PortProps ==
    {("node.id" :> "1")} \cup
    {("node.id" :> "1") @@ ("port.direction" :> d) : d \in {"in", "out", "sideways"}}

NextPorts ==
    \/ StoreAdd(1, "Node", None)
    \/ \E id \in PortIds, props \in PortProps : StoreAdd(id, "Port", Some(props))
    \/ \E id \in PortIds, props \in PortProps : StoreSetProps(id, "Port", props)
    \/ \E id \in StoreIds : StoreRemove(id)
    \/ \E id \in StoreIds, draw \in BOOLEAN, open \in SUBSET (1..Len(heap)) :
           Show(id, draw, open)

DeviceIds == {1, 2}

\* props of Node 3: the Device it belongs to
MovedNodeProps == {("device.id" :> IdText(i)) : i \in DeviceIds}

NextMove ==
    \/ \E id \in DeviceIds : StoreAdd(id, "Device", None)
    \/ \E props \in MovedNodeProps : StoreAdd(3, "Node", Some(props))
    \/ \E props \in MovedNodeProps : StoreSetProps(3, "Node", props)
    \/ \E id \in StoreIds : StoreRemove(id)
    \/ \E id \in StoreIds, draw \in BOOLEAN, open \in SUBSET (1..Len(heap)) :
           Show(id, draw, open)

------------------------------------------------------------------------------
(***************************************************************************)
(* The permissions panel of a Client (ObjectData::show, ui/global.rs       *)
(* 103-182).  One action is one frame in which the "Permissions" header is *)
(* open and the user acts on one widget.                                   *)
(***************************************************************************)
\* The Client whose panel is shown.
ClientId == 31

\* u32::MAX, as text
U32MaxText == "4294967295"

\* Permissions { id, permissions }
Permissions(id, flags) == [id |-> id, permissions |-> flags]

\* ids and flags the model's inputs are drawn from
PermIds == {0, 3}
PermFlags == {"R"}

\* The lists a ClientPermissions event carries.
PermissionLists ==
    { <<>>,
      <<Permissions(3, {"R"})>>,
      <<Permissions(3, {"R"}), Permissions(0, {})>> }

\* Request::CallObjectMethod(id, ObjectMethod::ClientGetPermissions { index: 0, num: u32::MAX })
GetPermissionsRequest(id) ==
    [kind |-> "CallObjectMethod", id |-> id,
     method |-> [name |-> "ClientGetPermissions", index |-> 0, num |-> U32MaxText]]

\* Request::CallObjectMethod(id, ObjectMethod::ClientUpdatePermissions(all))
UpdatePermissionsRequest(id, all) ==
    [kind |-> "CallObjectMethod", id |-> id,
     method |-> [name |-> "ClientUpdatePermissions", permissions |-> all]]

\* A merge that skips the staged entries whose id a known entry has.
AllPermissionsDeduplicated(known, staged) ==
    LET Fresh(p) == \A i \in 1..Len(known) : known[i].id # p.id IN
    known \o SelectSeq(staged, Fresh)

\* 154-158: all_permissions.append(&mut permissions.clone());
\*          all_permissions.append(user_permissions);
AllPermissions(known, staged) == known \o staged

\* The two sends of "Update permissions" with the refresh sent first.
UpdatePermissionsSendsRefreshFirst(id, all) ==
    <<GetPermissionsRequest(id), UpdatePermissionsRequest(id, all)>>

\* 160-176: the requests "Update permissions" sends, in order.
UpdatePermissionsSends(id, all) ==
    <<UpdatePermissionsRequest(id, all), GetPermissionsRequest(id)>>

\* draw_permissions: the DragValue sets the id, a selectable label toggles
\* its flag.
DrawPermissions(p, input) ==
    IF input[1] = "id" THEN [p EXCEPT !.id = input[2]]
    ELSE [p EXCEPT !.permissions =
              IF input[2] \in @ THEN @ \ {input[2]} ELSE @ \cup {input[2]}]

PermissionInputs ==
    {<<"id", n>> : n \in PermIds} \cup {<<"toggle", f>> : f \in PermFlags}

\* Vec::remove(i - 1)
RemoveAt(seq, i) == SubSeq(seq, 1, i - 1) \o SubSeq(seq, i + 1, Len(seq))

ClientInit ==
    /\ permissions = None
    /\ user_permissions = <<>>

\* Event::ClientPermissions(id, index, list): the known list is replaced.
ClientPermissionsEvent(list) ==
    /\ permissions' = Some(list)
    /\ UNCHANGED <<user_permissions, requests>>
    /\ ClientOnly

\* 111-120: "Get permissions"
GetPermissionsClick ==
    /\ WidgetSend(<<GetPermissionsRequest(ClientId)>>)
    /\ UNCHANGED <<permissions, user_permissions>>
    /\ ClientOnly

\* 127-131: an edit of the i-th known entry
KnownEdit(i, input) ==
    /\ permissions # None
    /\ i \in 1..Len(permissions[1])
    /\ permissions' = Some([permissions[1] EXCEPT ![i] = DrawPermissions(@, input)])
    /\ UNCHANGED <<user_permissions, requests>>
    /\ ClientOnly

\* 137-143: an edit of the i-th staged entry
StagedEdit(i, input) ==
    /\ permissions # None
    /\ i \in 1..Len(user_permissions)
    /\ user_permissions' = [user_permissions EXCEPT ![i] = DrawPermissions(@, input)]
    /\ UNCHANGED <<permissions, requests>>
    /\ ClientOnly

\* 137-143: "Delete" on the i-th staged entry
StagedDelete(i) ==
    /\ permissions # None
    /\ i \in 1..Len(user_permissions)
    /\ user_permissions' = RemoveAt(user_permissions, i)
    /\ UNCHANGED <<permissions, requests>>
    /\ ClientOnly

\* An "Add" that is drawn before the known list has arrived.
StagedAddBeforeReply ==
    /\ Len(user_permissions) < MaxStaged
    /\ user_permissions' = Append(user_permissions, Permissions(0, {}))
    /\ UNCHANGED <<permissions, requests>>
    /\ ClientOnly

\* 145-150: "Add"
StagedAdd ==
    /\ permissions # None
    /\ Len(user_permissions) < MaxStaged
    /\ user_permissions' = Append(user_permissions, Permissions(0, {}))
    /\ UNCHANGED <<permissions, requests>>
    /\ ClientOnly

\* An "Update permissions" that appends a clone of the staged list.
UpdatePermissionsClickKeepsStaged ==
    /\ permissions # None
    /\ WidgetSend(UpdatePermissionsSends(ClientId,
                      AllPermissions(permissions[1], user_permissions)))
    /\ UNCHANGED <<permissions, user_permissions>>
    /\ ClientOnly

\* 153-177: "Update permissions"; Vec::append leaves user_permissions empty.
UpdatePermissionsClick ==
    /\ permissions # None
    /\ WidgetSend(UpdatePermissionsSends(ClientId,
                      AllPermissions(permissions[1], user_permissions)))
    /\ user_permissions' = <<>>
    /\ UNCHANGED permissions
    /\ ClientOnly

\* for p in permissions.iter_mut()
KnownIndexes == IF permissions = None THEN {} ELSE DOMAIN permissions[1]

\* The bridge thread, as the panel's environment: it comes up or fails to,
\* and its loop takes the requests.
ClientEnvironment == BridgeSetupOk \/ BridgeSetupFail \/ BridgeRecv

NextClient ==
    \/ \E list \in PermissionLists : ClientPermissionsEvent(list)
    \/ GetPermissionsClick
    \/ \E i \in KnownIndexes, input \in PermissionInputs : KnownEdit(i, input)
    \/ \E i \in DOMAIN user_permissions, input \in PermissionInputs :
           StagedEdit(i, input)
    \/ \E i \in DOMAIN user_permissions : StagedDelete(i)
    \/ StagedAdd
    \/ UpdatePermissionsClick
    \/ ClientEnvironment

------------------------------------------------------------------------------
(***************************************************************************)
(* ObjectCreator (ui/object_creator.rs).  One CreatorShow step is one      *)
(* frame, in which the user acts on at most one widget.                    *)
(***************************************************************************)
FactoryIds == {1, 2}

\* name and object_type of the factories the daemon announces
FactoryKinds ==
    { [name |-> "spa-node-factory", object_type |-> "Node"],
      [name |-> "link-factory", object_type |-> "Link"] }

\* text the user types into a key field
KeyTexts == {"a"}

\* 76-84: let factory = .. self.factories.get(&id) ..
LookupFactory(fs, sel) ==
    IF sel # None /\ sel[1] \in DOMAIN fs THEN Some(fs[sel[1]]) ELSE None

\* A selection that survives its factory.
SelectionKept(fs, sel) == sel

\* 76-84: if factory.is_none() { self.selected_factory = None; }
SelectionAfterLookup(fs, sel) ==
    IF sel # None /\ LookupFactory(fs, sel) = None THEN None ELSE sel

\* A request that carries the entered props sorted by key.
CreateObjectRequestSorted(factory, props) ==
    [kind |-> "CreateObject", object_type |-> factory.object_type,
     name |-> factory.name,
     props |-> LET Empty(e) == e[1] = ""
                   Typed(e) == e[1] # "" IN
               SelectSeq(props, Empty) \o SelectSeq(props, Typed)]

\* 125-129: Request::CreateObject(object_type, name, self.props.list().clone())
CreateObjectRequest(factory, props) ==
    [kind |-> "CreateObject", object_type |-> factory.object_type,
     name |-> factory.name, props |-> props]

\* What the user does in one frame.
CreatorInputs ==
    {<<"none">>, <<"add">>, <<"create">>, <<"clear">>}
        \cup {<<"select", id>> : id \in FactoryIds}
        \cup {<<"delete", i>> : i \in 1..MaxCreatorProps}
        \cup {<<"key", i, k>> : i \in 1..MaxCreatorProps, k \in KeyTexts}

\* EditableKVList::show (ui/util/uis.rs 102-124)
EditableKVListShow(list, input) ==
    CASE input[1] = "delete" -> RemoveAt(list, input[2])
      [] input[1] = "key" -> [list EXCEPT ![input[2]] = <<input[3], @[2]>>]
      [] input[1] = "value" -> [list EXCEPT ![input[2]] = <<@[1], input[3]>>]
      [] input[1] = "add" -> Append(list, <<"", "">>)
      [] OTHER -> list

\* The widget the input names is drawn and enabled in this frame.
CreatorInputOffered(input, factory) ==
    CASE input[1] = "select" -> input[2] \in DOMAIN factories
      [] input[1] \in {"delete", "key"} -> input[2] \in DOMAIN creator_props
      [] input[1] = "add" -> Len(creator_props) < MaxCreatorProps
      [] input[1] = "create" -> factory # None     \* 118: add_enabled_ui
      [] OTHER -> TRUE

\* No frame has been drawn since the tracked set last changed.
NoFrame == "no frame"

CreatorInit ==
    /\ factories = [id \in {} |-> 0]
    /\ selected_factory = None
    /\ creator_props = <<>>
    /\ lastFrame = NoFrame
    /\ pickedFactory = None

\* ObjectCreator::add_factory
AddFactory(id, kind) ==
    /\ factories' = MapPut(factories, id, kind)
    /\ lastFrame' = NoFrame
    /\ UNCHANGED <<selected_factory, creator_props, requests, pickedFactory>>
    /\ CreatorOnly

\* A remove_factory that resets the selection of the factory it removes.
RemoveFactoryResets(id) ==
    /\ id \in DOMAIN factories
    /\ factories' = MapRemove(factories, id)
    /\ lastFrame' = NoFrame
    /\ selected_factory' = IF selected_factory = Some(id) THEN None ELSE selected_factory
    /\ pickedFactory' = IF selected_factory = Some(id) THEN None ELSE pickedFactory
    /\ UNCHANGED <<creator_props, requests>>
    /\ CreatorOnly

\* ObjectCreator::remove_factory
RemoveFactory(id) ==
    /\ id \in DOMAIN factories
    /\ factories' = MapRemove(factories, id)
    /\ lastFrame' = NoFrame
    /\ pickedFactory' = IF selected_factory = Some(id)
                        THEN Some([pickedFactory[1] EXCEPT !.removed = TRUE])
                        ELSE pickedFactory
    /\ UNCHANGED <<selected_factory, creator_props, requests>>
    /\ CreatorOnly

\* ObjectCreator::show
CreatorShow(input) ==
    LET factory == LookupFactory(factories, selected_factory)
        looked == SelectionAfterLookup(factories, selected_factory)
        \* 94-98: the combo box
        picked == IF input[1] = "select" THEN Some(input[2]) ELSE looked
        \* 113: self.props.show(ui)
        list == EditableKVListShow(creator_props, input) IN
    /\ CreatorInputOffered(input, factory)
    /\ IF input[1] = "create"
       THEN WidgetSend(<<CreateObjectRequest(factory[1], list)>>)
       ELSE UNCHANGED requests
    \* 133-136: "Clear"
    /\ selected_factory' = IF input[1] = "clear" THEN None ELSE picked
    /\ creator_props' = IF input[1] = "clear" THEN <<>> ELSE list
    /\ lastFrame' = IF selected_factory # None /\ factory = None
                    THEN "began stale" ELSE "began sound"
    /\ pickedFactory' = IF selected_factory' = None THEN None
                        ELSE IF input[1] = "select"
                        THEN Some([kind |-> factories[input[2]], removed |-> FALSE])
                        ELSE pickedFactory
    /\ UNCHANGED factories
    /\ CreatorOnly

NextCreator ==
    \/ \E id \in FactoryIds, kind \in FactoryKinds : AddFactory(id, kind)
    \/ \E id \in FactoryIds : RemoveFactory(id)
    \/ \E input \in CreatorInputs : CreatorShow(input)
    \/ ClientEnvironment

------------------------------------------------------------------------------
(***************************************************************************)
(* MetadataEditor (ui/metadata_editor.rs).                                 *)
(***************************************************************************)

\* struct Property
Property(subject, type_, value) ==
    [subject |-> subject, type_ |-> type_, value |-> value]

\* struct Metadata, as add_metadata and add_property build it
NewMetadata(name) ==
    [name |-> name, properties |-> EmptyMap, user_properties |-> <<>>]

\* An add_metadata that inserts whether or not the id has an entry.
AddMetadataInsert(ms, id, name) == MapPut(ms, id, NewMetadata(name))

\* MetadataEditor::add_metadata: entry(id).or_insert(..)
AddMetadataTo(ms, id, name) ==
    IF id \in DOMAIN ms THEN ms ELSE MapPut(ms, id, NewMetadata(name))

\* An add_property that keeps the record a key already has.
AddPropertyKeepOld(ms, id, name, subject, key, type_, value) ==
    LET prop == Property(subject, type_, value)
        m == IF id \in DOMAIN ms THEN ms[id] ELSE NewMetadata(name) IN
    IF key \in DOMAIN m.properties
    THEN MapPut(ms, id, m)
    ELSE MapPut(ms, id, [m EXCEPT !.properties = MapPut(@, key, prop)])

\* MetadataEditor::add_property
AddPropertyTo(ms, id, name, subject, key, type_, value) ==
    LET prop == Property(subject, type_, value) IN
    IF id \in DOMAIN ms
    THEN \* Entry::Occupied: the record replaces the key's or is inserted
         [ms EXCEPT ![id].properties = MapPut(@, key, prop)]
    ELSE \* Entry::Vacant: a Metadata with the given name and the one record
         MapPut(ms, id, [NewMetadata(name) EXCEPT !.properties = MapPut(@, key, prop)])

\* MetadataEditor::remove_metadata
RemoveMetadataFrom(ms, id) == MapRemove(ms, id)

\* A remove_property that drops a metadata with its last record.
RemovePropertyDropEmpty(ms, id, key) ==
    IF id \notin DOMAIN ms THEN ms
    ELSE IF DOMAIN ms[id].properties \subseteq {key} THEN MapRemove(ms, id)
    ELSE [ms EXCEPT ![id].properties = MapRemove(@, key)]

\* MetadataEditor::remove_property: entry(id).and_modify(..)
RemovePropertyFrom(ms, id, key) ==
    IF id \in DOMAIN ms
    THEN [ms EXCEPT ![id].properties = MapRemove(@, key)]
    ELSE ms

\* A clear_properties that starts the metadata over.
ClearPropertiesReset(ms, id) ==
    IF id \in DOMAIN ms THEN [ms EXCEPT ![id] = NewMetadata(@.name)] ELSE ms

\* MetadataEditor::clear_properties: entry(id).and_modify(..)
ClearPropertiesOf(ms, id) ==
    IF id \in DOMAIN ms THEN [ms EXCEPT ![id].properties = EmptyMap] ELSE ms

\* The inputs the operations are applied to.
MetaIds == {1, 2}
MetaNames == {"default", "settings"}
MetaKeys == {"default.audio.sink", "target.node"}
MetaArgs == {<<0, None, "v1">>, <<1, Some("Spa:Id"), "v2">>}

\* MetadataEditor::new
MetaInit ==
    /\ metadatas = EmptyMap
    /\ created = {}
    /\ lastOp = [op |-> "new"]

AddMetadata(id, name) ==
    /\ metadatas' = AddMetadataTo(metadatas, id, name)
    /\ created' = created \cup {id}
    /\ lastOp' = [op |-> "add_metadata", id |-> id, name |-> name,
                  had |-> id \in DOMAIN metadatas]
    /\ MetaOnly

AddProperty(id, name, subject, key, type_, value) ==
    /\ metadatas' = AddPropertyTo(metadatas, id, name, subject, key, type_, value)
    /\ created' = created \cup {id}
    /\ lastOp' = [op |-> "add_property", id |-> id, name |-> name, key |-> key,
                  prop |-> Property(subject, type_, value),
                  old |-> IF id \in DOMAIN metadatas
                          THEN Get(metadatas[id].properties, key)
                          ELSE None]
    /\ MetaOnly

RemoveMetadata(id) ==
    /\ metadatas' = RemoveMetadataFrom(metadatas, id)
    /\ created' = created \ {id}
    /\ lastOp' = [op |-> "remove_metadata", id |-> id,
                  had |-> id \in DOMAIN metadatas]
    /\ MetaOnly

RemoveProperty(id, key) ==
    /\ metadatas' = RemovePropertyFrom(metadatas, id, key)
    /\ lastOp' = [op |-> "remove_property", id |-> id, key |-> key,
                  had |-> /\ id \in DOMAIN metadatas
                          /\ key \in DOMAIN metadatas[id].properties]
    /\ UNCHANGED created
    /\ MetaOnly

ClearProperties(id) ==
    /\ metadatas' = ClearPropertiesOf(metadatas, id)
    /\ lastOp' = [op |-> "clear_properties", id |-> id,
                  had |-> /\ id \in DOMAIN metadatas
                          /\ DOMAIN metadatas[id].properties # {}]
    /\ UNCHANGED created
    /\ MetaOnly

\* MetadataEditor::draw, 185-194: "Add Property" stages an empty record.
DrawAddProperty(id) ==
    /\ id \in DOMAIN metadatas
    /\ Len(metadatas[id].user_properties) < MaxUserProps
    /\ metadatas' = [metadatas EXCEPT ![id].user_properties =
                        Append(@, <<"", Property(0, None, "")>>)]
    /\ lastOp' = [op |-> "draw", id |-> id]
    /\ UNCHANGED created
    /\ MetaOnly

\* MetadataEditor::draw, 195-238: "Delete" on a staged record (retain_mut).
DrawDelete(id, i) ==
    /\ id \in DOMAIN metadatas
    /\ i \in 1..Len(metadatas[id].user_properties)
    /\ metadatas' = [metadatas EXCEPT ![id].user_properties =
                        SubSeq(@, 1, i - 1) \o SubSeq(@, i + 1, Len(@))]
    /\ lastOp' = [op |-> "draw", id |-> id]
    /\ UNCHANGED created
    /\ MetaOnly

\* Request::CallObjectMethod(id, ObjectMethod::MetadataClear)
MetadataClearRequest(id) ==
    [kind |-> "CallObjectMethod", id |-> id, method |-> [name |-> "MetadataClear"]]

\* Property::set_request
SetRequest(prop, key) ==
    [name |-> "MetadataSetProperty", subject |-> prop.subject, key |-> key,
     type_ |-> prop.type_, value |-> Some(prop.value)]

\* A clear_request that sends an empty text as the value.
ClearRequestEmptyText(prop, key) ==
    [name |-> "MetadataSetProperty", subject |-> prop.subject, key |-> key,
     type_ |-> prop.type_, value |-> Some("")]

\* Property::clear_request
ClearRequest(prop, key) ==
    [name |-> "MetadataSetProperty", subject |-> prop.subject, key |-> key,
     type_ |-> prop.type_, value |-> None]

\* Request::CallObjectMethod(id, method)
CallObjectMethod(id, method) ==
    [kind |-> "CallObjectMethod", id |-> id, method |-> method]

\* A widget of MetadataEditor::draw leaves everything but the mirror and the
\* Request channel alone.
MetaDrawOnly ==
    /\ WidgetBridgeFrame
    /\ UNCHANGED <<labelVars, graphVars, deriveVars, clientVars, creatorVars, created>>

\* A "Clear" that empties the local map as it sends.
DrawClearAllOptimistic(id) ==
    /\ id \in DOMAIN metadatas
    /\ WidgetSend(<<MetadataClearRequest(id)>>)
    /\ metadatas' = ClearPropertiesOf(metadatas, id)
    /\ lastOp' = [op |-> "draw", id |-> id]
    /\ MetaDrawOnly

\* MetadataEditor::draw, 139-142: "Clear" next to the id
DrawClearAll(id) ==
    /\ id \in DOMAIN metadatas
    /\ WidgetSend(<<MetadataClearRequest(id)>>)
    /\ lastOp' = [op |-> "draw", id |-> id]
    /\ UNCHANGED metadatas
    /\ MetaDrawOnly

\* MetadataEditor::draw, 152-158: "Clear" on the row of key
DrawClearKey(id, key) ==
    /\ id \in DOMAIN metadatas
    /\ key \in DOMAIN metadatas[id].properties
    /\ WidgetSend(<<CallObjectMethod(id, ClearRequest(metadatas[id].properties[key], key))>>)
    /\ lastOp' = [op |-> "draw", id |-> id]
    /\ UNCHANGED metadatas
    /\ MetaDrawOnly

\* MetadataEditor::draw, 159-165: "Set" on the row of key
DrawSetKey(id, key) ==
    /\ id \in DOMAIN metadatas
    /\ key \in DOMAIN metadatas[id].properties
    /\ WidgetSend(<<CallObjectMethod(id, SetRequest(metadatas[id].properties[key], key))>>)
    /\ lastOp' = [op |-> "draw", id |-> id]
    /\ UNCHANGED metadatas
    /\ MetaDrawOnly

\* MetadataEditor::draw, 166-170: the TextEdit on the value of the row
DrawEditValue(id, key, v) ==
    /\ id \in DOMAIN metadatas
    /\ key \in DOMAIN metadatas[id].properties
    /\ metadatas' = [metadatas EXCEPT ![id].properties[key].value = v]
    /\ lastOp' = [op |-> "draw", id |-> id]
    /\ UNCHANGED requests
    /\ MetaDrawOnly

\* MetadataEditor::draw, 228-236: "Add" on the i-th staged record; the record
\* stays staged.
DrawAdd(id, i) ==
    /\ id \in DOMAIN metadatas
    /\ i \in DOMAIN metadatas[id].user_properties
    /\ LET staged == metadatas[id].user_properties[i] IN
       WidgetSend(<<CallObjectMethod(id, SetRequest(staged[2], staged[1]))>>)
    /\ lastOp' = [op |-> "draw", id |-> id]
    /\ UNCHANGED metadatas
    /\ MetaDrawOnly

\* The key and the text of the rows the widgets are exercised on.
DrawnKeys == {"target.node"}
DrawnValues == {"typed"}

\* The widgets of MetadataEditor::draw, on the metadata ids of ids.
DrawWidgets(ids) ==
    \/ \E id \in ids : DrawClearAll(id)
    \/ \E id \in ids, key \in DrawnKeys : DrawClearKey(id, key)
    \/ \E id \in ids, key \in DrawnKeys : DrawSetKey(id, key)
    \/ \E id \in ids, key \in DrawnKeys, v \in DrawnValues : DrawEditValue(id, key, v)
    \/ \E id \in ids : DrawAddProperty(id)
    \/ \E id \in ids, i \in 1..MaxUserProps : DrawAdd(id, i)

\* The daemon's metadata events the mirror applies, on the ids of ids.
DrawnEvents(ids) ==
    \/ \E id \in ids, key \in DrawnKeys, a \in MetaArgs :
           AddProperty(id, "default", a[1], key, a[2], a[3])
    \/ \E id \in ids, key \in DrawnKeys : RemoveProperty(id, key)
    \/ \E id \in ids : ClearProperties(id)

\* The metadata editor with its widgets, over two metadatas.
NextMetaDraw ==
    \/ DrawnEvents(MetaIds)
    \/ DrawWidgets(MetaIds)
    \/ ClientEnvironment

\* The widgets that send a request about something the mirror holds: one
\* Device (id 1), one metadata (id 1).
NextRequests ==
    \/ StoreAdd(1, "Device", None)
    \/ StoreRemove(1)
    \/ \E draw \in BOOLEAN, open \in SUBSET (1..Len(heap)) : DestroyClick(1, draw, open)
    \/ DrawnEvents({1})
    \/ DrawWidgets({1})
    \/ ClientEnvironment

NextMeta ==
    \/ \E id \in MetaIds, name \in MetaNames : AddMetadata(id, name)
    \/ \E id \in MetaIds, name \in MetaNames, key \in MetaKeys, a \in MetaArgs :
           AddProperty(id, name, a[1], key, a[2], a[3])
    \/ \E id \in MetaIds : RemoveMetadata(id)
    \/ \E id \in MetaIds, key \in MetaKeys : RemoveProperty(id, key)
    \/ \E id \in MetaIds : ClearProperties(id)
    \/ \E id \in MetaIds : DrawAddProperty(id)
    \/ \E id \in MetaIds, i \in 1..MaxUserProps : DrawDelete(id, i)

------------------------------------------------------------------------------
(***************************************************************************)
(* One Global as the mirror updates it and as Global::show edits it        *)
(* (ui/global.rs 336-360, ui/util/uis.rs 61-90).  The Global is probe; dPc *)
(* names the last operation on it: "new", "set" (set_props), "info"        *)
(* (set_info), "sub" (add_subobject), "data" (object_data_mut), "ui" (a    *)
(* widget of the "Properties" header), "update" ("Update properties").     *)
(***************************************************************************)
EditedTypes == {"Client", "Node"}

EditedKeys == {"application.name", "device.id"}

EditedValues(k) == IF k = "device.id" THEN {"5"} ELSE {"the " \o k}

\* The props a GlobalProperties event carries.
EditedMaps ==
    {EmptyMap} \cup UNION {{(k :> v) : v \in EditedValues(k)} : k \in EditedKeys}
        \cup {("application.name" :> "the application.name") @@ ("device.id" :> "5")}

\* The texts the user types.
TypedKeys == {"application.name"}
TypedValues == {"typed"}

\* The info a GlobalInfo event carries.
InfoValues == {None, Some(<<<<"State", "running">>>>)}

\* Request::CallObjectMethod(id, ObjectMethod::ClientUpdateProperties(props))
UpdatePropertiesRequest(id, props) ==
    [kind |-> "CallObjectMethod", id |-> id,
     method |-> [name |-> "ClientUpdateProperties", props |-> props]]

\* An extend that keeps the value a key already has.
RECURSIVE ExtendKeepFirst(_, _, _)
ExtendKeepFirst(map, list, i) ==
    IF i > Len(list) THEN map
    ELSE ExtendKeepFirst(IF list[i][1] \in DOMAIN map THEN map
                         ELSE MapPut(map, list[i][1], list[i][2]), list, i + 1)

\* Whether list holds a pair whose key map has with another value, and
\* whether it holds two pairs of one key with different values.
Collides(map, list) ==
    \E i \in DOMAIN list :
        list[i][1] \in DOMAIN map /\ map[list[i][1]] # list[i][2]

Repeats(list) ==
    \E i, j \in DOMAIN list :
        i < j /\ list[i][1] = list[j][1] /\ list[i][2] # list[j][2]

\* BTreeMap::extend with the pairs of list, in order: a later pair replaces
\* an earlier one of the same key.
RECURSIVE Extend(_, _, _)
Extend(map, list, i) ==
    IF i > Len(list) THEN map
    ELSE Extend(MapPut(map, list[i][1], list[i][2]), list, i + 1)

EditorOnly ==
    /\ WidgetBridgeFrame
    /\ UNCHANGED <<labelVars, graphVars, metaVars, clientVars, creatorVars, dType, dInit, dNext>>

\* Global::new(id, object_type, None), as the mirror makes it on GlobalAdded
EditorInit ==
    /\ dType \in EditedTypes
    /\ dInit = None
    /\ dNext = EmptyMap
    /\ probe = Some(GlobalNew(ClientId, dType, None))
    /\ dPc = "new"

\* Event::GlobalProperties: global.set_props(props)
EditorSetProps(props) ==
    /\ probe' = Some(SetProps(probe[1], props))
    /\ dPc' = "set"
    /\ UNCHANGED requests
    /\ EditorOnly

\* Event::GlobalInfo: global.set_info(info)
EditorSetInfo(info) ==
    /\ probe' = Some(SetInfo(probe[1], info))
    /\ dPc' = "info"
    /\ UNCHANGED requests
    /\ EditorOnly

\* A child names this Global as its parent: global.add_subobject(weak)
EditorAddSubobject(weak) ==
    /\ Len(probe[1].subobjects) < MaxSubobjects
    /\ probe' = Some(AddSubobject(probe[1], weak))
    /\ dPc' = "sub"
    /\ UNCHANGED requests
    /\ EditorOnly

\* Event::ClientPermissions, through object_data_mut: the known list is set.
EditorPermissions(list) ==
    /\ probe[1].object_data.tag = "Client"
    /\ probe' = Some([probe[1] EXCEPT !.object_data.permissions = Some(list)])
    /\ dPc' = "data"
    /\ UNCHANGED requests
    /\ EditorOnly

\* map_editor, 69-83: "Delete" on the row of key k (BTreeMap::retain)
EditorDelete(k) ==
    /\ probe[1].object_data.tag = "Client"
    /\ k \in DOMAIN probe[1].props
    /\ probe' = Some([probe[1] EXCEPT !.props = MapRemove(@, k)])
    /\ dPc' = "ui"
    /\ UNCHANGED requests
    /\ EditorOnly

\* map_editor, 74-77: the TextEdit on the value of key k
EditorEdit(k, v) ==
    /\ probe[1].object_data.tag = "Client"
    /\ k \in DOMAIN probe[1].props
    /\ probe' = Some([probe[1] EXCEPT !.props = MapPut(@, k, v)])
    /\ dPc' = "ui"
    /\ UNCHANGED requests
    /\ EditorOnly

\* What the user does to the staged additions in one frame.
StagedInputs ==
    {<<"add">>}
        \cup {<<"delete", i>> : i \in 1..MaxAdditions}
        \cup {<<"key", i, k>> : i \in 1..MaxAdditions, k \in TypedKeys}
        \cup {<<"value", i, v>> : i \in 1..MaxAdditions, v \in TypedValues}

\* map_editor, 88-89: user_additions.show(ui)
EditorStaged(input) ==
    /\ probe[1].object_data.tag = "Client"
    /\ IF input[1] = "add"
       THEN Len(probe[1].object_data.user_properties) < MaxAdditions
       ELSE input[2] \in DOMAIN probe[1].object_data.user_properties
    /\ probe' = Some([probe[1] EXCEPT !.object_data.user_properties =
                          EditableKVListShow(@, input)])
    /\ dPc' = "ui"
    /\ UNCHANGED requests
    /\ EditorOnly

\* 346-359: "Update properties"
EditorUpdateProperties ==
    /\ probe[1].object_data.tag = "Client"
    /\ LET merged == Extend(probe[1].props, probe[1].object_data.user_properties, 1) IN
       /\ probe' = Some([probe[1] EXCEPT !.props = merged,
                                         !.object_data.user_properties = <<>>])
       /\ WidgetSend(<<UpdatePropertiesRequest(probe[1].id, merged)>>)
    \* history: what the merge met
    /\ dPc' = IF /\ Collides(probe[1].props, probe[1].object_data.user_properties)
                 /\ Repeats(probe[1].object_data.user_properties)
              THEN "update, replacing and repeated"
              ELSE "update"
    /\ EditorOnly

\* The "Properties" header of a Global and the property updates that reach it.
NextEditor ==
    \/ \E props \in EditedMaps : EditorSetProps(props)
    \/ \E k \in EditedKeys : EditorDelete(k)
    \/ \E k \in EditedKeys, v \in TypedValues : EditorEdit(k, v)
    \/ \E input \in StagedInputs : EditorStaged(input)
    \/ EditorUpdateProperties
    \/ ClientEnvironment

\* The updates the mirror applies to a Global, and the staging widgets that
\* fill its object_data.
NextInPlace ==
    \/ \E props \in EditedMaps : EditorSetProps(props)
    \/ \E info \in InfoValues : EditorSetInfo(info)
    \/ \E weak \in Ids : EditorAddSubobject(weak)
    \/ \E list \in PermissionLists : EditorPermissions(list)
    \/ \E input \in StagedInputs : EditorStaged(input)

------------------------------------------------------------------------------
(***************************************************************************)
(* The labels draw_permissions offers (ui/global.rs 32-70) and the version *)
(* of the remote they depend on (backend/mod.rs 82-87).                    *)
(***************************************************************************)
\* The version triples the remote may advertise.
Majors == {0, 1, 2}
Minors == {2, 3, 4}
Micros == {0, 76, 77, 78, 100}
Versions == {<<a, b, c>> : a \in Majors, b \in Minors, c \in Micros}

FourLabels == <<"Read", "Write", "Execute", "Metadata">>
FiveLabels == <<"Read", "Write", "Execute", "Metadata", "Link">>

\* backend::remote_version(): REMOTE_VERSION.get(); without the feature
\* there is no REMOTE_VERSION.
RemoteVersion == IF pw_v0_3_77 THEN remote_version ELSE None

\* 39-59: the closure of PERMISSIONS.get_or_init
InitialLabels(feature, ver) ==
    IF feature /\ ver # None /\ (ver[1][1] > 0 \/ ver[1][3] >= 77)
    THEN FiveLabels
    ELSE FourLabels

LabelOnly ==
    UNCHANGED <<bridgeVars, graphVars, deriveVars, metaVars, clientVars, creatorVars>>

\* No panel is drawn: the machine is at rest.
LabelIdle ==
    /\ pw_v0_3_77 = FALSE
    /\ remote_version = None
    /\ PERMISSIONS = None
    /\ seenVersion = "unset"

\* Process start: both OnceLocks are empty.
LabelInit ==
    /\ pw_v0_3_77 \in BOOLEAN
    /\ remote_version = None
    /\ PERMISSIONS = None
    /\ seenVersion = "unset"

\* The bridge learns the version of the remote and stores it, once.
RemoteVersionSet(ver) ==
    /\ pw_v0_3_77
    /\ remote_version = None
    /\ remote_version' = Some(ver)
    /\ UNCHANGED <<pw_v0_3_77, PERMISSIONS, seenVersion>>
    /\ LabelOnly

\* draw_permissions: PERMISSIONS.get_or_init(..) runs the closure on the
\* first call and returns the stored labels on every later one.
DrawPermissionsLabels ==
    /\ IF PERMISSIONS = None
       THEN /\ PERMISSIONS' = Some(InitialLabels(pw_v0_3_77, RemoteVersion))
            /\ seenVersion' = RemoteVersion
       ELSE UNCHANGED <<PERMISSIONS, seenVersion>>
    /\ UNCHANGED <<pw_v0_3_77, remote_version>>
    /\ LabelOnly

NextLabels ==
    \/ \E ver \in Versions : RemoteVersionSet(ver)
    \/ DrawPermissionsLabels

------------------------------------------------------------------------------
Init ==
    BridgeInit /\ GraphInit /\ MetaInit /\ DeriveIdle /\ ClientInit /\ CreatorInit
        /\ LabelIdle

InitDerive ==
    BridgeInit /\ GraphInit /\ MetaInit /\ DeriveInit /\ ClientInit /\ CreatorInit
        /\ LabelIdle

SpecDerive == InitDerive /\ [][NextDerive]_vars

InitEditor ==
    BridgeInit /\ GraphInit /\ MetaInit /\ EditorInit /\ ClientInit /\ CreatorInit
        /\ LabelIdle

SpecEditor == InitEditor /\ [][NextEditor]_vars

SpecInPlace == InitEditor /\ [][NextInPlace]_vars

InitLabels ==
    BridgeInit /\ GraphInit /\ MetaInit /\ DeriveIdle /\ ClientInit /\ CreatorInit
        /\ LabelInit

SpecLabels == InitLabels /\ [][NextLabels]_vars

SpecMeta == Init /\ [][NextMeta]_vars

SpecMetaDraw == Init /\ [][NextMetaDraw]_vars

SpecRequests == Init /\ [][NextRequests]_vars

SpecGraph == Init /\ [][NextGraph]_vars

SpecPorts == Init /\ [][NextPorts]_vars

SpecMove == Init /\ [][NextMove]_vars

SpecClient == Init /\ [][NextClient]_vars

SpecCreator == Init /\ [][NextCreator]_vars

BridgeStep == BridgeSetupOk \/ BridgeSetupFail \/ BridgeRecv

NextBridge ==
    \/ BridgeSetupOk
    \/ BridgeSetupFail
    \/ \E e \in BridgeEvents : BridgeEmit(e)
    \/ BridgeRecv
    \/ BridgePanic
    \/ UiRecv
    \/ \E r \in OtherRequests : UiSend(r)
    \/ DropSendStop
    \/ DropJoin

SpecBridge == Init /\ [][NextBridge]_vars

\* The operating system schedules the bridge thread, and join returns once
\* the thread has finished.
FairSpecBridge == SpecBridge /\ WF_vars(BridgeStep) /\ WF_vars(DropJoin)

------------------------------------------------------------------------------
(***************************************************************************)
(* Properties of the session bridge.                                       *)
(***************************************************************************)

\* C1: dropping the Handle sends Request::Stop exactly once, joins only after
\* that send and at most once, and, the bridge loop reacting to Stop, the
\* join (and with it the drop) always eventually completes.
C1_StopThenJoin ==
    /\ [](/\ stopSends <= 1
          /\ joins <= 1
          /\ (uiPc # "live" => stopSends = 1)
          /\ (joins = 1 => stopSends = 1)
          /\ (uiPc = "dropped" <=> joins = 1)
          /\ (handleThread = None <=> joins = 1))
    /\ (uiPc = "joining" ~> uiPc = "dropped")

\* The Handle was dropped while the loop ran: Stop was read and the join returned.
C1_Witness ==
    /\ uiPc = "dropped"
    /\ thread = "stopped"
    /\ stopSends = 1
    /\ joins = 1
    /\ requests = <<>>

\* C2: what the UI has taken from the Event channel, followed by what is
\* still queued, is exactly what the bridge emitted, in emission order:
\* nothing is lost, duplicated or reordered.
C2_EventOrder == received \o events = emitted

\* The UI has taken two different Events while a third is still queued.
C2_Witness ==
    /\ Len(received) >= 2
    /\ received[1] # received[2]
    /\ events # <<>>

\* C3: while the loop runs, the next Event send is enabled however many
\* Events are queued and not yet taken by the UI.
C3_EmitNeverBlocks ==
    (thread = "running" /\ Len(emitted) < MaxEvents)
        => \A e \in BridgeEvents : ENABLED BridgeEmit(e)

\* Two Events are queued, the UI has taken none, and the loop still runs.
C3_Witness ==
    /\ thread = "running"
    /\ Len(events) >= 2
    /\ received = <<>>
    /\ Len(emitted) < MaxEvents

\* C15: a panic of the bridge thread shows only in the join of the drop: its
\* log line is written there and nowhere else, no Event is emitted by or
\* after the panic, the UI thread does not unwind, and the drop completes.
C15_PanicAtJoin ==
    /\ [](/\ uiPc \in {"live", "joining", "dropped"}
          /\ (\E i \in DOMAIN log : log[i] = "The PipeWire thread has paniced")
                 <=> (thread = "panicked" /\ joins = 1)
          /\ Len(SelectSeq(log, LAMBDA l : l = "The PipeWire thread has paniced")) <= 1)
    /\ [][thread' = "panicked" => emitted' = emitted]_vars
    /\ ((thread = "panicked" /\ uiPc = "joining") ~> uiPc = "dropped")

\* The thread panicked after emitting Events; the drop joined it and wrote
\* the line.
C15_Witness ==
    /\ thread = "panicked"
    /\ uiPc = "dropped"
    /\ emitted # <<>>
    /\ log[Len(log)] = "The PipeWire thread has paniced"

\* C16: a send on the Request channel that fails writes a log line and drops
\* the request, whichever action sent it (a widget or the drop's Stop).
C16_FailedSendLogged ==
    [][((sent' = sent + 1 \/ stopSends' = stopSends + 1) /\ requests' = requests)
           => Len(log') = Len(log) + 1]_vars

\* C17: when the bridge thread has returned from a failed set-up, having
\* taken no request and emitted no Event, the drop still completes: Stop is
\* sent once, a failed send leaves only its log line, the join returns, and
\* no Event is emitted or observed.
C17_DropAfterSetupFailure ==
    /\ [](thread = "failed" =>
             /\ emitted = <<>> /\ events = <<>> /\ received = <<>>
             /\ uiPc = "dropped" =>
                    /\ stopSends = 1
                    /\ joins = 1
                    /\ log \in {<<>>, <<"Error sending stop request to PipeWire">>})
    /\ ((thread = "failed" /\ uiPc = "joining") ~> uiPc = "dropped")

\* Set-up failed, the drop's Stop could not be sent, and the join returned.
C17_Witness ==
    /\ thread = "failed"
    /\ uiPc = "dropped"
    /\ joins = 1
    /\ log = <<"Error sending stop request to PipeWire">>

------------------------------------------------------------------------------
(***************************************************************************)
(* Properties of the traversal (Global::show).  After a frame, shown[1] is *)
(* the Global the frame showed; a reference h is dangling when heap[h] is  *)
(* None, which it is exactly when the Global it was attached for has been  *)
(* removed.                                                                *)
(***************************************************************************)
\* C4: once Global::show has run on a parent, no reference to a removed child
\* remains in that parent's subobjects list, and no removed child was
\* displayed during the traversal.
C4_PrunedAfterShow ==
    shown # <<>> =>
        LET parent == heap[shown[1]][1] IN
        /\ \A i \in 1..Len(parent.subobjects) :
               Upgradable(heap, parent.subobjects[i])
        /\ \A i \in 1..Len(shown) : Upgradable(heap, shown[i])

\* The Globals a list of references names, as a set.
Listed(list) == {list[i] : i \in DOMAIN list}

\* C18: when a Node is shown with its "Ports" header open and its ports
\* drawn, every live child port is drawn in exactly one group: Outputs iff
\* its port.direction is "out", Inputs iff it is "in", Unknown direction
\* otherwise, a missing key included; the groups come in the order Outputs,
\* Inputs, Unknown direction, each holds its ports in the order of the
\* subobjects list, and a group without ports is not drawn.
C18_PortGrouping ==
    [][\A id \in StoreIds, open \in SUBSET (1..Len(heap)) :
           (/\ store[id] # None
            /\ ObjectType(heap[store[id][1]][1]) = "Node"
            /\ store[id][1] \in open
            /\ Show(id, TRUE, open)
            /\ ~uiPanic')
           => LET h == store[id][1]
                  Alive(p) == heap[p] # None
                  live == SelectSeq(heap[h][1].subobjects, Alive)
                  Direction(p) ==
                      IF "port.direction" \in DOMAIN heap[p][1].props
                      THEN heap[p][1].props["port.direction"] ELSE "none"
                  LabelOf(p) == CASE Direction(p) = "out" -> "Outputs"
                                  [] Direction(p) = "in" -> "Inputs"
                                  [] OTHER -> "Unknown direction"
                  Rank(l) == CASE l = "Outputs" -> 1 [] l = "Inputs" -> 2
                               [] l = "Unknown direction" -> 3
                  InGroup(l) == LET Has(p) == LabelOf(p) = l IN SelectSeq(live, Has) IN
              /\ \A p \in Listed(live) :
                     \E i \in DOMAIN groups' :
                         /\ p \in Listed(groups'[i].ports)
                         /\ groups'[i].label = LabelOf(p)
                         /\ \A j \in DOMAIN groups' :
                                p \in Listed(groups'[j].ports) => j = i
              /\ \A i \in DOMAIN groups' :
                     /\ groups'[i].node = h
                     /\ groups'[i].ports # <<>>
                     /\ groups'[i].ports = InGroup(groups'[i].label)
                     /\ \A j \in DOMAIN groups' :
                            i < j => Rank(groups'[i].label) < Rank(groups'[j].label)]_vars

\* A Node was shown whose list holds an input port before an output port:
\* the Outputs group was drawn first, the Inputs group second.
C18_Witness ==
    /\ Len(groups) = 2
    /\ groups[1].label = "Outputs"
    /\ groups[2].label = "Inputs"
    /\ heap[groups[1].node][1].subobjects = groups[2].ports \o groups[1].ports

\* C19: a live child whose derived parent changed from one Global to another
\* is listed among the new parent's subobjects, and a former parent that has
\* been traversed since no longer lists it: a Global just shown lists a live
\* child only if it is that child's derived parent.
C19_ReferenceMoved ==
    /\ [][\A id \in StoreIds, t \in ObjectTypes, props \in MovedNodeProps :
              (/\ StoreSetProps(id, t, props)
               /\ ParentId(heap'[store[id][1]][1]) # ParentId(heap[store[id][1]][1])
               /\ ParentHandle(store, heap'[store[id][1]][1]) # None)
              => store[id][1] \in
                     Listed(heap'[ParentHandle(store, heap'[store[id][1]][1])[1]][1].subobjects)]_vars
    /\ [](shown # <<>> =>
             \A id \in StoreIds :
                 (store[id] # None
                  /\ store[id][1] \in Listed(heap[shown[1]][1].subobjects))
                 => ParentId(heap[store[id][1]][1]) = Some(heap[shown[1]][1].id))

------------------------------------------------------------------------------
(***************************************************************************)
(* Properties of name and parent derivation (Global::update). The         *)
(* expected results are written out for the keys and values the inputs     *)
(* are drawn from.                                                         *)
(***************************************************************************)
\* The drawn keys in ascending byte order.
KeysAscending == <<"application.name", "client.id", "core.name",
                   "device.description", "device.id", "device.name",
                   "device.nick", "factory.name", "library.name",
                   "media.name", "node.description", "node.id", "node.name",
                   "node.nick", "node.nickname", "port.name">>

\* The drawn keys that end in ".name".
DotNameKeys == {"application.name", "core.name", "device.name",
                "factory.name", "library.name", "media.name", "node.name",
                "port.name"}

\* The drawn id values and the u32 each one denotes, if any.
ExpectedU32(v) ==
    CASE v = "5" -> Some(5)
      [] v = "+2" -> Some(2)
      [] OTHER -> None

TypeCandidates(t) ==
    CASE t = "Device" -> <<"device.nick", "device.description", "device.name">>
      [] t = "Node" -> <<"node.nick", "node.description", "node.name">>
      [] t = "Port" -> <<"port.name">>
      [] t = "Core" -> <<"core.name">>
      [] OTHER -> <<>>

\* C5: the name of a Device, Node, Port or Core is the value of the first
\* of its type's candidate keys that is present in props.
C5_TypeSpecificName ==
    probe # None =>
        LET g == probe[1]
            c == TypeCandidates(ObjectType(g)) IN
        \A i \in 1..Len(c) :
            (c[i] \in DOMAIN g.props /\ \A j \in 1..(i - 1) : c[j] \notin DOMAIN g.props)
                => g.name = Some(g.props[c[i]])

\* set_props gave a Node both node.nick and node.name, and the nick won.
C5_Witness ==
    /\ dPc = "set"
    /\ probe # None
    /\ ObjectType(probe[1]) = "Node"
    /\ {"node.nick", "node.name"} \subseteq DOMAIN probe[1].props
    /\ probe[1].props["node.nick"] # probe[1].props["node.name"]
    /\ probe[1].name = Some(probe[1].props["node.nick"])

\* C6: with no candidate key present the name is the value of the first key
\* in ascending order that ends in ".name", library.name never counting and
\* factory.name counting for a Factory only; None when there is no such key.
C6_FallbackName ==
    probe # None =>
        LET g == probe[1]
            t == ObjectType(g)
            c == TypeCandidates(t)
            eligible == {i \in 1..Len(KeysAscending) :
                            /\ KeysAscending[i] \in DOMAIN g.props
                            /\ KeysAscending[i] \in DotNameKeys
                            /\ KeysAscending[i] # "library.name"
                            /\ (KeysAscending[i] = "factory.name" => t = "Factory")} IN
        (\A i \in 1..Len(c) : c[i] \notin DOMAIN g.props)
            => IF eligible = {}
               THEN g.name = None
               ELSE \E i \in eligible :
                        /\ \A j \in eligible : i <= j
                        /\ g.name = Some(g.props[KeysAscending[i]])

\* An object that is no Factory holds factory.name and media.name: the scan
\* passed factory.name and took media.name.
C6_Witness ==
    /\ probe # None
    /\ ObjectType(probe[1]) = "Link"
    /\ DOMAIN probe[1].props = {"factory.name", "media.name"}
    /\ probe[1].name = Some(probe[1].props["media.name"])

\* C7: a Node's parent is read from device.id, else from client.id, a Port's
\* from node.id, nothing else has a parent; a missing value or one that is
\* no u32 leaves the parent None.
C7_ParentDerivation ==
    probe # None =>
        LET g == probe[1]
            t == ObjectType(g)
            src == CASE t = "Node" ->
                            IF "device.id" \in DOMAIN g.props THEN Some(g.props["device.id"])
                            ELSE IF "client.id" \in DOMAIN g.props THEN Some(g.props["client.id"])
                            ELSE None
                     [] t = "Port" ->
                            IF "node.id" \in DOMAIN g.props THEN Some(g.props["node.id"])
                            ELSE None
                     [] OTHER -> None IN
        ParentId(g) = IF src = None THEN None ELSE ExpectedU32(src[1])

\* A Port held node.id = "5" and was then given node.id = "x": its parent is
\* None again.
C7_Witness ==
    /\ dPc = "back"
    /\ probe # None
    /\ ObjectType(probe[1]) = "Port"
    /\ "node.id" \in DOMAIN dNext
    /\ dNext["node.id"] = "5"
    /\ "node.id" \in DOMAIN probe[1].props
    /\ probe[1].props["node.id"] = "x"
    /\ ParentId(probe[1]) = None

\* The props handed to the last call made on the probed Global.
LastGiven ==
    CASE dPc = "set" -> dNext
      [] OTHER -> IF dInit = None THEN EmptyMap ELSE dInit[1]

\* The parent a Global of type t with these props has, by the rule alone.
DerivedParent(t, props) ==
    LET key == CASE t = "Node" /\ "device.id" \in DOMAIN props -> Some("device.id")
                 [] t = "Node" /\ "device.id" \notin DOMAIN props
                               /\ "client.id" \in DOMAIN props -> Some("client.id")
                 [] t = "Port" /\ "node.id" \in DOMAIN props -> Some("node.id")
                 [] OTHER -> None IN
    IF key = None THEN None ELSE ExpectedU32(props[key[1]])

\* C20: after Global::new and any set_props calls that followed, the Global
\* holds the props of the last call and parent_id is the parent derived from
\* those props and the object type, whatever the earlier props were; a
\* Global made with no props or with empty props has neither parent nor name.
C20_ParentFromCurrentProps ==
    probe # None =>
        /\ probe[1].props = LastGiven
        /\ ParentId(probe[1]) = DerivedParent(dType, LastGiven)
        /\ (dPc = "new" /\ LastGiven = EmptyMap) =>
               (ParentId(probe[1]) = None /\ Name(probe[1]) = None)

\* A Node made with device.id = "5" had parent 5; set_props then gave it
\* props without device.id and client.id, and its parent is None.
C20_Witness ==
    /\ dPc = "set"
    /\ probe # None
    /\ dType = "Node"
    /\ dInit # None
    /\ DerivedParent(dType, dInit[1]) = Some(5)
    /\ dNext # EmptyMap
    /\ "device.id" \notin DOMAIN dNext
    /\ "client.id" \notin DOMAIN dNext
    /\ ParentId(probe[1]) = None

\* C27: a Node whose props hold device.id never takes its parent from
\* client.id: the parent is what device.id parses to, and None when it is
\* no u32, whatever client.id holds; without device.id the parent is what
\* client.id parses to.
C27_DeviceIdShadowsClientId ==
    (probe # None /\ dType = "Node") =>
        LET props == probe[1].props IN
        IF "device.id" \in DOMAIN props
        THEN ParentId(probe[1]) = ExpectedU32(props["device.id"])
        ELSE IF "client.id" \in DOMAIN props
        THEN ParentId(probe[1]) = ExpectedU32(props["client.id"])
        ELSE ParentId(probe[1]) = None

\* A Node holds device.id = "x" and client.id = "5" and has no parent.
C27_Witness ==
    /\ probe # None
    /\ dType = "Node"
    /\ dPc = "set"
    /\ DOMAIN probe[1].props = {"client.id", "device.id"}
    /\ probe[1].props["device.id"] = "x"
    /\ probe[1].props["client.id"] = "5"
    /\ ParentId(probe[1]) = None

------------------------------------------------------------------------------
(***************************************************************************)
(* Properties of the metadata mirror.                                      *)
(***************************************************************************)
\* Every metadata other than id is the same before and after the step.
OtherMetadatasSame(id) ==
    /\ DOMAIN metadatas' \ {id} = DOMAIN metadatas \ {id}
    /\ \A o \in DOMAIN metadatas \ {id} : metadatas'[o] = metadatas[o]

\* C8: add_property leaves exactly one record under its key, the one just
\* given (value, subject and type), whether or not the key held a record
\* before; the other keys of that metadata and the other metadatas are as
\* they were.
C8_Upsert ==
    [][lastOp'.op = "add_property" =>
          LET id == lastOp'.id
              key == lastOp'.key
              before == IF id \in DOMAIN metadatas
                        THEN metadatas[id].properties ELSE EmptyMap IN
          /\ id \in DOMAIN metadatas'
          /\ DOMAIN metadatas'[id].properties = DOMAIN before \cup {key}
          /\ metadatas'[id].properties[key] = lastOp'.prop
          /\ \A k \in DOMAIN before \ {key} :
                 metadatas'[id].properties[k] = before[k]
          /\ OtherMetadatasSame(id)]_vars

\* The key held v1; add_property with v2, another subject and a type replaced
\* it, next to a second key and a second metadata.
C8_Witness ==
    /\ lastOp.op = "add_property"
    /\ lastOp.old = Some(Property(0, None, "v1"))
    /\ lastOp.prop = Property(1, Some("Spa:Id"), "v2")
    /\ metadatas[lastOp.id].properties[lastOp.key] = lastOp.prop
    /\ DOMAIN metadatas[lastOp.id].properties = MetaKeys
    /\ DOMAIN metadatas = MetaIds

\* C9: remove_property takes away the record of its key and nothing else;
\* clear_properties takes away every record of its metadata and leaves the
\* entry with its name and staged user records; neither touches another
\* metadata, and neither adds or removes an entry.
C9_DeleteAndClear ==
    [][/\ lastOp'.op = "remove_property" =>
              LET id == lastOp'.id
                  key == lastOp'.key IN
              /\ DOMAIN metadatas' = DOMAIN metadatas
              /\ OtherMetadatasSame(id)
              /\ id \in DOMAIN metadatas =>
                     /\ metadatas'[id].name = metadatas[id].name
                     /\ metadatas'[id].user_properties = metadatas[id].user_properties
                     /\ DOMAIN metadatas'[id].properties =
                            DOMAIN metadatas[id].properties \ {key}
                     /\ \A k \in DOMAIN metadatas'[id].properties :
                            metadatas'[id].properties[k] = metadatas[id].properties[k]
       /\ lastOp'.op = "clear_properties" =>
              LET id == lastOp'.id IN
              /\ DOMAIN metadatas' = DOMAIN metadatas
              /\ OtherMetadatasSame(id)
              /\ id \in DOMAIN metadatas =>
                     /\ metadatas'[id].name = metadatas[id].name
                     /\ metadatas'[id].user_properties = metadatas[id].user_properties
                     /\ DOMAIN metadatas'[id].properties = {}]_vars

\* clear_properties emptied a metadata that had records and a staged user
\* record; the other metadata still has its records.
C9_Witness ==
    /\ lastOp.op = "clear_properties"
    /\ lastOp.had
    /\ lastOp.id \in DOMAIN metadatas
    /\ DOMAIN metadatas[lastOp.id].properties = {}
    /\ metadatas[lastOp.id].user_properties # <<>>
    /\ \E o \in DOMAIN metadatas \ {lastOp.id} : DOMAIN metadatas[o].properties # {}

\* C10: a metadata entry exists exactly when its id was created by
\* add_metadata or add_property and not removed by remove_metadata since;
\* remove_property and clear_properties neither remove nor create entries.
C10_EntryExistence == DOMAIN metadatas = created

\* remove_property took the last record of a metadata, which is still there.
C10_Witness ==
    /\ lastOp.op = "remove_property"
    /\ lastOp.had
    /\ lastOp.id \in DOMAIN metadatas
    /\ DOMAIN metadatas[lastOp.id].properties = {}

------------------------------------------------------------------------------
(***************************************************************************)
(* Properties of the permissions panel.                                    *)
(***************************************************************************)
\* C11: the ClientUpdatePermissions request that "Update permissions" sends
\* carries the known list followed by the staged list, entry for entry:
\* |known| + |staged| entries, none dropped when ids are equal.
C11_PermissionMerge ==
    [][\A i \in DOMAIN requests' :
           (/\ i > Len(requests)
            /\ requests'[i].kind = "CallObjectMethod"
            /\ requests'[i].method.name = "ClientUpdatePermissions")
           => /\ permissions # None
              /\ LET all == requests'[i].method.permissions
                     known == permissions[1]
                     staged == user_permissions IN
                 /\ Len(all) = Len(known) + Len(staged)
                 /\ \A j \in 1..Len(known) : all[j] = known[j]
                 /\ \A j \in 1..Len(staged) : all[Len(known) + j] = staged[j]]_vars

\* A request of three entries is queued, two known and one staged, the staged
\* one with the id of a known one.
C11_Witness ==
    \E i \in DOMAIN requests :
        /\ requests[i].kind = "CallObjectMethod"
        /\ requests[i].method.name = "ClientUpdatePermissions"
        /\ Len(requests[i].method.permissions) = 3
        /\ requests[i].method.permissions[1].id = requests[i].method.permissions[3].id
        /\ permissions # None /\ Len(permissions[1]) = 2
        /\ user_permissions = <<>>

\* C12: one "Update permissions" sends ClientUpdatePermissions and then
\* ClientGetPermissions { index: 0, num: u32::MAX } for the same client and
\* nothing else: with the bridge alive the Request channel grows by exactly
\* these two, in this order, and in no case by anything else or in another
\* order.
C12_UpdateThenRefresh ==
    [][UpdatePermissionsClick =>
           LET n == Len(requests)
               IsUpdate(r) == /\ r.kind = "CallObjectMethod"
                              /\ r.id = ClientId
                              /\ r.method.name = "ClientUpdatePermissions"
               IsRefresh(r) == r = [kind |-> "CallObjectMethod", id |-> ClientId,
                                    method |-> [name |-> "ClientGetPermissions",
                                                index |-> 0, num |-> "4294967295"]] IN
           /\ SubSeq(requests', 1, n) = requests
           /\ Len(requests') <= n + 2
           /\ ~Finished(thread) => Len(requests') = n + 2
           /\ Len(requests') = n + 2 =>
                  IsUpdate(requests'[n + 1]) /\ IsRefresh(requests'[n + 2])
           /\ Len(requests') = n + 1 =>
                  IsUpdate(requests'[n + 1]) \/ IsRefresh(requests'[n + 1])]_vars

\* Both requests of one click wait on the channel of a running bridge.
C12_Witness ==
    /\ thread = "running"
    /\ Len(requests) = 2
    /\ requests[1].method.name = "ClientUpdatePermissions"
    /\ requests[2].method.name = "ClientGetPermissions"
    /\ requests[1].method.permissions # <<>>

------------------------------------------------------------------------------
(***************************************************************************)
(* Properties of the ObjectCreator.                                        *)
(***************************************************************************)
\* C13: when the selected factory id is no longer tracked, the next
\* ObjectCreator::show resets the selection (it is None after the frame
\* unless the user picks a tracked factory in that same frame, and never the
\* stale id) and sends nothing in that frame.
C13_SelectionReset ==
    [][\A input \in CreatorInputs :
           (/\ selected_factory # None
            /\ selected_factory[1] \notin DOMAIN factories
            /\ CreatorShow(input))
           => /\ requests' = requests
              /\ input[1] # "select" => selected_factory' = None
              /\ selected_factory' # selected_factory
              /\ selected_factory' # None =>
                     selected_factory'[1] \in DOMAIN factories']_vars

\* A frame began with a selection whose factory was gone while another
\* factory was tracked, and ended with no selection; the entered pairs are
\* still there, so the frame was not a "Clear".
C13_Witness ==
    /\ lastFrame = "began stale"
    /\ selected_factory = None
    /\ DOMAIN factories # {}
    /\ creator_props # <<>>

\* C14: "Create" sends one CreateObject request with the object type and
\* name of the tracked factory selected when the frame began and with the
\* entered pairs in entry order, and leaves selection and entered pairs as
\* they were; no CreateObject request is sent while no tracked factory is
\* selected.
C14_CreateObject ==
    [][/\ CreatorShow(<<"create">>) =>
              /\ selected_factory' = selected_factory
              /\ creator_props' = creator_props
              /\ SubSeq(requests', 1, Len(requests)) = requests
              /\ Len(requests') <= Len(requests) + 1
              /\ ~Finished(thread) => Len(requests') = Len(requests) + 1
       /\ \A i \in DOMAIN requests' :
              (i > Len(requests) /\ requests'[i].kind = "CreateObject")
              => /\ selected_factory # None
                 /\ selected_factory[1] \in DOMAIN factories
                 /\ requests'[i].object_type = factories[selected_factory[1]].object_type
                 /\ requests'[i].name = factories[selected_factory[1]].name
                 /\ requests'[i].props = creator_props
                 /\ Len(requests') = Len(requests) + 1]_vars

\* "Create" was clicked with two different pairs entered, the first with a
\* key and the second without; the request waits on the channel.
C14_Witness ==
    /\ lastFrame = "began sound"
    /\ selected_factory # None
    /\ Len(creator_props) = 2
    /\ creator_props[1][1] # "" /\ creator_props[2][1] = ""
    /\ requests # <<>>
    /\ requests[Len(requests)].kind = "CreateObject"
    /\ requests[Len(requests)].props = creator_props

------------------------------------------------------------------------------
(***************************************************************************)
(* Further properties of the permissions panel.                            *)
(***************************************************************************)
IsUpdatePermissions(r) ==
    r.kind = "CallObjectMethod" /\ r.method.name = "ClientUpdatePermissions"

\* C28: while the known list of the Client has never arrived (permissions
\* is None) no ClientUpdatePermissions request is pending or is sent, the
\* one request the panel can send is ClientGetPermissions, and nothing can
\* be staged.
C28_NothingBeforeFirstReply ==
    /\ [](permissions = None =>
             /\ user_permissions = <<>>
             /\ \A i \in DOMAIN requests : ~IsUpdatePermissions(requests[i]))
    /\ [][permissions = None =>
             /\ user_permissions' = <<>>
             /\ \A i \in DOMAIN requests' :
                    i > Len(requests) =>
                        requests'[i] = GetPermissionsRequest(ClientId)]_vars

\* "Get permissions" was clicked on a Client whose list has not arrived: the
\* request is pending and the panel holds nothing else.
C28_Witness ==
    /\ permissions = None
    /\ user_permissions = <<>>
    /\ thread = "running"
    /\ requests = <<GetPermissionsRequest(ClientId)>>

\* C29: "Update permissions" leaves the staged list empty and the known list
\* as it was, not extended with the staged entries; an "Update permissions"
\* clicked with nothing staged, as a second one is, sends the known list
\* alone.
C29_StagedDrained ==
    [][UpdatePermissionsClick =>
           /\ user_permissions' = <<>>
           /\ permissions' = permissions
           /\ user_permissions = <<>> =>
                  \A i \in DOMAIN requests' :
                      (i > Len(requests) /\ IsUpdatePermissions(requests'[i]))
                      => requests'[i].method.permissions = permissions[1]]_vars

\* An update with one staged entry has just been sent: the request carries
\* one entry more than the known list, and the staged list is empty.
C29_Witness ==
    /\ permissions # None
    /\ user_permissions = <<>>
    /\ Len(requests) = 2
    /\ IsUpdatePermissions(requests[1])
    /\ Len(requests[1].method.permissions) = Len(permissions[1]) + 1
    /\ SubSeq(requests[1].method.permissions, 1, Len(permissions[1])) = permissions[1]
    /\ requests[2] = GetPermissionsRequest(ClientId)

------------------------------------------------------------------------------
(***************************************************************************)
(* Metadata records that arrive before their metadata.                     *)
(***************************************************************************)
\* C30: add_property for an id without entry creates the entry, with the
\* name it was given, holding that one record and nothing staged;
\* add_metadata for an id that has an entry changes nothing, whatever the
\* name, and applying add_metadata again after add_metadata changes nothing.
C30_OutOfOrderMetadata ==
    [][/\ (lastOp'.op = "add_property" /\ lastOp'.id \notin DOMAIN metadatas)
          => LET id == lastOp'.id IN
             /\ DOMAIN metadatas' = DOMAIN metadatas \cup {id}
             /\ metadatas'[id].name = lastOp'.name
             /\ DOMAIN metadatas'[id].properties = {lastOp'.key}
             /\ metadatas'[id].properties[lastOp'.key] = lastOp'.prop
             /\ metadatas'[id].user_properties = <<>>
             /\ \A o \in DOMAIN metadatas : metadatas'[o] = metadatas[o]
       /\ lastOp'.op = "add_metadata"
          => LET id == lastOp'.id IN
             /\ id \in DOMAIN metadatas => metadatas' = metadatas
             /\ id \in DOMAIN metadatas'
             /\ \A again \in MetaNames :
                    AddMetadataTo(metadatas', id, again) = metadatas']_vars

\* add_metadata came, under another name, for a metadata that holds a record
\* and a staged record: all of it is still there.
C30_Witness ==
    /\ lastOp.op = "add_metadata"
    /\ lastOp.had
    /\ lastOp.id \in DOMAIN metadatas
    /\ metadatas[lastOp.id].name # lastOp.name
    /\ DOMAIN metadatas[lastOp.id].properties # {}
    /\ metadatas[lastOp.id].user_properties # <<>>

------------------------------------------------------------------------------
(***************************************************************************)
(* Properties of a Global under updates and under the "Properties" header. *)
(***************************************************************************)
\* C21: in every reachable state the name of the Global is the name derived
\* from the props it holds now, also after the "Properties" header of a
\* Client deleted or edited an entry or merged the staged additions.
C21_NameFollowsProps ==
    probe # None => Name(probe[1]) = NameOf(probe[1])

\* C22: the props of a Global change in set_props only: no widget of the
\* Global adds, removes or modifies an entry.
C22_PropsReplacedOnly ==
    [][(probe # None /\ probe' # None /\ probe'[1].props # probe[1].props)
           => dPc' = "set"]_vars

\* C24: set_props leaves id, object type, info, subobjects and object_data
\* as they were; set_info leaves id, props, name, parent, subobjects and
\* object_data as they were.
C24_UpdatedInPlace ==
    [][/\ dPc' = "set" =>
              /\ probe'[1].id = probe[1].id
              /\ ObjectType(probe'[1]) = ObjectType(probe[1])
              /\ probe'[1].info = probe[1].info
              /\ probe'[1].subobjects = probe[1].subobjects
              /\ probe'[1].object_data = probe[1].object_data
       /\ dPc' = "info" =>
              /\ probe'[1].id = probe[1].id
              /\ probe'[1].props = probe[1].props
              /\ probe'[1].name = probe[1].name
              /\ probe'[1].parent = probe[1].parent
              /\ probe'[1].subobjects = probe[1].subobjects
              /\ probe'[1].object_data = probe[1].object_data]_vars

\* set_props has just given a name to a Client that holds info, a child, a
\* known permission list and a staged property.
C24_Witness ==
    /\ dPc = "set"
    /\ probe # None
    /\ probe[1].object_data.tag = "Client"
    /\ probe[1].name # None
    /\ probe[1].info # None
    /\ probe[1].subobjects # <<>>
    /\ probe[1].object_data.permissions \notin {None, Some(<<>>)}
    /\ probe[1].object_data.user_properties # <<>>

------------------------------------------------------------------------------
(***************************************************************************)
(* Requests and the mirror.                                                *)
(***************************************************************************)
\* The Global a live handle refers to, without its pruned child list.
Mirrored(g) == [g EXCEPT !.subobjects = <<>>]

\* C23: a widget that sends DestroyObject, MetadataClear or a per-key
\* metadata Clear or Set leaves the mirror as it was: the Global is still
\* held, with the content it had, and the metadata entries hold the records
\* they held; only an Event that is applied changes them.
C23_MirrorNotForced ==
    [][(\/ \E draw \in BOOLEAN, open \in SUBSET (1..Len(heap)) :
               DestroyClick(1, draw, open)
        \/ DrawClearAll(1)
        \/ \E key \in DrawnKeys : DrawClearKey(1, key) \/ DrawSetKey(1, key))
       => /\ metadatas' = metadatas
          /\ store' = store
          /\ \A id \in StoreIds :
                 store[id] # None =>
                     /\ heap'[store[id][1]] # None
                     /\ Mirrored(heap'[store[id][1]][1]) = Mirrored(heap[store[id][1]][1])]_vars

\* MetadataClear for metadata 1 is pending and the metadata still holds a
\* record; a click on a widget is the last thing that happened to it.
C23_Witness ==
    /\ requests = <<MetadataClearRequest(1)>>
    /\ lastOp = [op |-> "draw", id |-> 1]
    /\ 1 \in DOMAIN metadatas
    /\ DOMAIN metadatas[1].properties # {}

\* The requests a step has put on the Request channel.
Appended == SubSeq(requests', Len(requests) + 1, Len(requests'))

\* The step has sent exactly r, or, the bridge being gone, nothing.
SentOnly(r) ==
    /\ Appended \in {<<>>, <<r>>}
    /\ ~Finished(thread) => Appended = <<r>>

\* C26: "Set" on a record sends MetadataSetProperty with the record's
\* subject, key and type and Some of its current value; "Clear" on a record
\* sends the same with the value None; "Clear" on the metadata sends
\* MetadataClear; each is a CallObjectMethod on the id of the metadata that
\* holds the record.
C26_RequestsMirrorRecord ==
    [][\A id \in MetaIds :
           /\ \A key \in DrawnKeys :
                  /\ DrawSetKey(id, key) =>
                         SentOnly([kind |-> "CallObjectMethod", id |-> id,
                                   method |-> [name |-> "MetadataSetProperty",
                                               subject |-> metadatas[id].properties[key].subject,
                                               key |-> key,
                                               type_ |-> metadatas[id].properties[key].type_,
                                               value |-> Some(metadatas[id].properties[key].value)]])
                  /\ DrawClearKey(id, key) =>
                         SentOnly([kind |-> "CallObjectMethod", id |-> id,
                                   method |-> [name |-> "MetadataSetProperty",
                                               subject |-> metadatas[id].properties[key].subject,
                                               key |-> key,
                                               type_ |-> metadatas[id].properties[key].type_,
                                               value |-> None]])
           /\ DrawClearAll(id) =>
                  SentOnly([kind |-> "CallObjectMethod", id |-> id,
                            method |-> [name |-> "MetadataClear"]])]_vars

\* "Set" was clicked on a record of metadata 2 whose value the user had
\* typed over: the request carries the typed value and the record's type
\* and subject, while metadata 1 holds a record under the same key.
C26_Witness ==
    /\ Len(requests) = 1
    /\ requests[1].kind = "CallObjectMethod"
    /\ requests[1].id = 2
    /\ requests[1].method.name = "MetadataSetProperty"
    /\ requests[1].method.value = Some("typed")
    /\ requests[1].method.type_ # None
    /\ 2 \in DOMAIN metadatas
    /\ requests[1].method.key \in DOMAIN metadatas[2].properties
    /\ metadatas[2].properties[requests[1].method.key].value = "typed"
    /\ 1 \in DOMAIN metadatas
    /\ requests[1].method.key \in DOMAIN metadatas[1].properties
    /\ metadatas[1].properties[requests[1].method.key].value # "typed"

------------------------------------------------------------------------------
(***************************************************************************)
(* The Link permission.                                                    *)
(***************************************************************************)
\* Version order on triples.
VersionAtLeast(v, w) ==
    \/ v[1] > w[1]
    \/ v[1] = w[1] /\ v[2] > w[2]
    \/ v[1] = w[1] /\ v[2] = w[2] /\ v[3] >= w[3]

\* C25: the labels drawn, computed with the version the remote advertises,
\* include Link exactly when that version is at least 0.3.77 in version
\* order; for an older or unknown version they are Read, Write, Execute and
\* Metadata.
C25_LinkFromVersion ==
    (PERMISSIONS # None /\ seenVersion = remote_version) =>
        IF remote_version # None /\ VersionAtLeast(remote_version[1], <<0, 3, 77>>)
        THEN PERMISSIONS[1] = FiveLabels
        ELSE PERMISSIONS[1] = FourLabels

------------------------------------------------------------------------------
(***************************************************************************)
(* A factory that is removed and announced again between two frames.       *)
(***************************************************************************)
\* C31: the selection changes inside ObjectCreator::show only.  When the
\* selected factory is removed and a factory is added under the same id
\* before the next frame, the selection is still that id and names the new
\* factory; the next frame keeps it, and "Create" in it sends the new
\* factory's name and object type.
C31_LazySelectionReset ==
    [][/\ lastFrame' = NoFrame => selected_factory' = selected_factory
       /\ \A id \in FactoryIds, kind \in FactoryKinds :
              (/\ selected_factory = Some(id)
               /\ id \notin DOMAIN factories
               /\ AddFactory(id, kind))
              => /\ selected_factory' = Some(id)
                 /\ LookupFactory(factories', selected_factory') = Some(kind)
       /\ \A input \in CreatorInputs :
              (/\ pickedFactory # None
               /\ pickedFactory[1].removed
               /\ selected_factory # None
               /\ selected_factory[1] \in DOMAIN factories
               /\ CreatorShow(input))
              => /\ lastFrame' = "began sound"
                 /\ input[1] \notin {"select", "clear"} =>
                        selected_factory' = selected_factory
                 /\ input[1] = "create" =>
                        /\ SubSeq(requests', 1, Len(requests)) = requests
                        /\ ~Finished(thread) => Len(requests') = Len(requests) + 1
                        /\ \A i \in DOMAIN requests' :
                               i > Len(requests) =>
                                   /\ requests'[i].kind = "CreateObject"
                                   /\ requests'[i].name =
                                          factories[selected_factory[1]].name
                                   /\ requests'[i].object_type =
                                          factories[selected_factory[1]].object_type]_vars

\* The factory that was picked has been removed, another kind of factory was
\* added under its id, and "Create" has sent that one's name and type.
C31_Witness ==
    /\ lastFrame = "began sound"
    /\ pickedFactory # None
    /\ pickedFactory[1].removed
    /\ selected_factory # None
    /\ selected_factory[1] \in DOMAIN factories
    /\ factories[selected_factory[1]].name # pickedFactory[1].kind.name
    /\ requests # <<>>
    /\ requests[Len(requests)].kind = "CreateObject"
    /\ requests[Len(requests)].name = factories[selected_factory[1]].name
    /\ requests[Len(requests)].object_type = factories[selected_factory[1]].object_type

------------------------------------------------------------------------------
(***************************************************************************)
(* "Update properties" of a Client.                                        *)
(***************************************************************************)
\* The value the staged list gives a key: that of its last pair of the key.
StagedValue(list, k) ==
    LET last == CHOOSE i \in DOMAIN list :
                    /\ list[i][1] = k
                    /\ \A j \in DOMAIN list : list[j][1] = k => j <= i
    IN list[last][2]

\* C32: "Update properties" of a Client leaves props holding every key it had
\* and every staged key; a staged key has the value of its last staged pair,
\* whatever props held for it, and the other keys keep their values.  The
\* staged list is empty afterwards, nothing else of the Global changes, and
\* one ClientUpdateProperties request with the whole merged map is sent on
\* the Client's id.
C32_UpdatePropertiesMerges ==
    [][EditorUpdateProperties =>
           LET before == probe[1]
               staged == before.object_data.user_properties
               stagedKeys == {staged[i][1] : i \in DOMAIN staged}
               after == probe'[1]
           IN /\ DOMAIN after.props = DOMAIN before.props \cup stagedKeys
              /\ \A k \in DOMAIN after.props :
                     after.props[k] = IF k \in stagedKeys
                                      THEN StagedValue(staged, k)
                                      ELSE before.props[k]
              /\ after.object_data.user_properties = <<>>
              /\ after = [before EXCEPT !.props = after.props,
                                        !.object_data.user_properties = <<>>]
              /\ SentOnly([kind |-> "CallObjectMethod", id |-> before.id,
                           method |-> [name |-> "ClientUpdateProperties",
                                       props |-> after.props]])]_vars

\* An update whose staged list named a key of props with another value and
\* named a key twice with different values has been sent.
C32_Witness ==
    /\ dPc = "update, replacing and repeated"
    /\ probe[1].object_data.user_properties = <<>>
    /\ probe[1].props # EmptyMap
    /\ requests # <<>>
    /\ requests[Len(requests)].kind = "CallObjectMethod"
    /\ requests[Len(requests)].id = probe[1].id
    /\ requests[Len(requests)].method.name = "ClientUpdateProperties"
    /\ requests[Len(requests)].method.props = probe[1].props

==============================================================================
